---------------------------- MODULE Spec2Model ----------------------------
(***************************************************************************)
(* CommitStateDB (x/evm/types/statedb.go): the transactional state overlay *)
(* between the EVM and the account keeper / KV store.                      *)
(*                                                                         *)
(* The overlay is single-threaded: every call of its API is one atomic     *)
(* action.  The helpers of a call are operators on a record `d' that holds *)
(* the whole state (overlay fields and external stores), composed in the   *)
(* order in which the Go code calls them.                                  *)
(***************************************************************************)
EXTENDS Integers, Sequences, FiniteSets, TLC

VARIABLES
    accounts,             \* AccountKeeper: address -> account record (absent: not in DOMAIN)
    kvCode,               \* KV store, code: code hash -> code bytes
    kvStorage,            \* KV store, contract storage: <<address, key>> -> value
    kvHeightHash,         \* KV store, height hashes: HeightHashKey(height) -> block hash
    blacklist,            \* BankKeeper.BlacklistedAddr: the set of blacklisted addresses
    stateObjects,         \* csdb.stateObjects        (statedb.go:63)
    addressToObjectIndex, \* csdb.addressToObjectIndex (statedb.go:64), 0-based as in Go
    stateObjectsDirty,    \* csdb.stateObjectsDirty   (statedb.go:65)
    refund,               \* csdb.refund, uint64      (statedb.go:68)
    thash, bhash,         \* csdb.thash, csdb.bhash   (statedb.go:70)
    txIndex,              \* csdb.txIndex             (statedb.go:71)
    logSize,              \* csdb.logSize             (statedb.go:72)
    logs,                 \* csdb.logs                (statedb.go:74)
    preimages,            \* csdb.preimages           (statedb.go:78)
    hashToPreimageIndex,  \* csdb.hashToPreimageIndex (statedb.go:79)
    dbErr,                \* csdb.dbErr               (statedb.go:86)
    journal,              \* csdb.journal: the entries (statedb.go:90)
    validRevisions,       \* csdb.validRevisions      (statedb.go:91)
    nextRevisionID,       \* csdb.nextRevisionID      (statedb.go:92)
    accessList,           \* csdb.accessList          (statedb.go:95)
    params,               \* csdb.params cache        (statedb.go:100)
    last,                 \* history: the last call, its arguments, its outcome and
                          \* the writes it made to the account keeper, in order
    snapView,             \* history: revision id -> what was readable at Snapshot()
    budget,               \* history: the number of calls still to be explored
    filters,              \* api.filters: subscription id -> wsSubscription (pubsub_api.go:29)
    filtersMu,            \* api.filtersMu: the goroutine that holds it  (pubsub_api.go:28)
    unsubscribed,         \* the unsubscribed channel of each subscription: open or closed
    eventSubs,            \* api.events: the ids the event system delivers events for
    goroutines,           \* each goroutine's position and local variables
    panicked,             \* the panic that ended the process, if any
    wsHistory             \* history: the last step, the unsubscribe calls that returned
                          \* true, the ids registered and removed, the inputs left

vars == <<budget, accounts, kvCode, kvStorage, kvHeightHash, blacklist, stateObjects,
          addressToObjectIndex, stateObjectsDirty, refund, thash, bhash,
          txIndex, logSize, logs, preimages, hashToPreimageIndex, dbErr,
          journal, validRevisions, nextRevisionID, accessList, params,
          last, snapView,
          filters, filtersMu, unsubscribed, eventSubs, goroutines, panicked,
          wsHistory>>

\* the state of the CommitStateDB and of the stores behind it
dbVars == <<budget, accounts, kvCode, kvStorage, kvHeightHash, blacklist, stateObjects,
            addressToObjectIndex, stateObjectsDirty, refund, thash, bhash,
            txIndex, logSize, logs, preimages, hashToPreimageIndex, dbErr,
            journal, validRevisions, nextRevisionID, accessList, params,
            last, snapView>>

\* the state of the websocket PubSubAPI
wsVars == <<filters, filtersMu, unsubscribed, eventSubs, goroutines, panicked,
            wsHistory>>

---------------------------------------------------------------------------
(* Bounds and input domains                                                *)

MaxJournal == 3        \* calls are explored while the journal has at most this many entries
MaxRevisionID == 1     \* Snapshot() is explored while nextRevisionID is at most this
MaxCalls == 5          \* call sequences of at most this length are explored
MaxDeepCalls == 6      \* the same for the deep specification
MaxOverlayCalls == 3   \* the same for the specification of all the overlay mutations

Addresses == {"a1", "a2"}
SetAmounts == {0, 1}           \* amounts given to SetBalance
Amounts == {1, 2}              \* amounts given to AddBalance / SubBalance
BalanceCap == 3                \* balances are explored up to this one
Nonces == {1}                  \* nonces given to SetNonce
Codes == {<<>>, <<<<1>>>>}     \* byte slices given to SetCode: nil, and one byte
Keys == {"k1"}
ZeroHash == "0x00"             \* ethcmn.Hash{}
StorageValues == {ZeroHash, "v1"}
TxHashes == {"t1"}
BlockHashes == {"b1"}
NewBlockHashes == {"b2"}       \* block hashes given to SetBlockHash
TxIndexes == {1}
LogPayloads == {"l1"}
\* the log slices given to SetLogs
InstalledLogs ==
    {<<>>, <<[payload |-> "l2", TxHash |-> ZeroHash, BlockHash |-> ZeroHash,
              TxIndex |-> <<1, 0, 0, 0>>, Index |-> 1]>>}
LogSizes == 0 .. 2
PreimageHashes == {"h1", "h2"}
PreimageBytes == {"x", "y"}
Slots == {"s1"}

None == <<>>                   \* a nil pointer / an absent optional value
Some(x) == <<x>>               \* a present optional value
EvmParams == "params"          \* the parameter set held by the param space

---------------------------------------------------------------------------
(* uint64 arithmetic, as four 16-bit limbs (least significant first)       *)

LimbBase == 2 ^ 16

U64(n) == <<n % LimbBase, (n \div LimbBase) % LimbBase, 0, 0>>

MaxUint64 == <<LimbBase - 1, LimbBase - 1, LimbBase - 1, LimbBase - 1>>

RECURSIVE U64AddFrom(_, _, _, _)
U64AddFrom(x, y, i, carry) ==
    IF i > 4 THEN <<>>
    ELSE LET s == x[i] + y[i] + carry
         IN  <<s % LimbBase>> \o U64AddFrom(x, y, i + 1, s \div LimbBase)

\* x + y on uint64: the sum modulo 2^64
U64Add(x, y) == U64AddFrom(x, y, 1, 0)

RECURSIVE U64SubFrom(_, _, _, _)
U64SubFrom(x, y, i, borrow) ==
    IF i > 4 THEN <<>>
    ELSE LET s == x[i] - y[i] - borrow
         IN  IF s < 0 THEN <<s + LimbBase>> \o U64SubFrom(x, y, i + 1, 1)
                      ELSE <<s>> \o U64SubFrom(x, y, i + 1, 0)

\* x - y on uint64: the difference modulo 2^64
U64Sub(x, y) == U64SubFrom(x, y, 1, 0)

RECURSIVE U64GtFrom(_, _, _)
U64GtFrom(x, y, i) ==
    IF i < 1 THEN FALSE
    ELSE IF x[i] # y[i] THEN x[i] > y[i]
    ELSE U64GtFrom(x, y, i - 1)

\* x > y on uint64
U64Gt(x, y) == U64GtFrom(x, y, 4)

GasInputs == {U64(1), MaxUint64}

\* uint(i) of an int: the value modulo 2^64
Uint(i) == IF i >= 0 THEN U64(i) ELSE U64Sub(U64(0), U64(-i))

---------------------------------------------------------------------------
(* Hashes, accounts, state objects                                         *)

\* ethcrypto.Keccak256Hash: a collision-free hash of the bytes
Keccak256(code) == <<"keccak256", code>>

emptyCodeHash == Keccak256(<<>>)

\* ethcmn.Hash{} as a code hash
ZeroCodeHash == <<"zero", <<>>>>

\* sdk.Dec: a decimal held as its integer of 10^-Precision units
Precision == 18

\* sdk.NewDecFromBigIntWithPrec(i, prec): i * 10^-prec
NewDecFromBigIntWithPrec(i, prec) == [int |-> i * 10 ^ (Precision - prec)]

\* Dec.BigInt(): the integer of 10^-Precision units
BigInt(dec) == dec.int

ZeroDec == NewDecFromBigIntWithPrec(0, Precision)

\* AccountKeeper.NewAccountWithAddress: a fresh account, no coins, sequence 0
NewAccountWithAddress == [balance |-> ZeroDec, nonce |-> 0, codeHash |-> emptyCodeHash]

\* newStateObject(csdb, acc): a state object around the account record
newStateObject(addr, acc) ==
    [address |-> addr, account |-> acc, code |-> None, dirtyCode |-> FALSE,
     originStorage |-> <<>>, dirtyStorage |-> <<>>,
     suicided |-> FALSE, deleted |-> FALSE]

\* stateObject.empty(): nonce == 0, balance == 0, no code (EIP-161)
empty(so) ==
    /\ so.account.nonce = 0
    /\ BigInt(so.account.balance) = 0
    /\ so.account.codeHash = emptyCodeHash

\* stateObject.Balance() / Nonce() / CodeHash()
Balance(so) == BigInt(so.account.balance)
Nonce(so) == so.account.nonce
CodeHash(so) == so.account.codeHash

---------------------------------------------------------------------------
(* The websocket PubSubAPI: goroutines and the API as NewAPI leaves it     *)

MaxEvents == 2         \* events and errors that the event system delivers
MaxUnsubscribes == 2   \* unsubscribe calls that the clients make
MaxLogs == 2           \* logs of one event that pass the filter of a logs subscription

Ids == {"s1"}          \* the subscription ids the event system hands out
Clients == {"c1", "c2"}
Methods == {"newHeads", "logs", "newPendingTransactions", "syncing"}
WriteErrors == {"nil", "ErrCloseSent", "other"}   \* what conn.WriteJSON returns

\* the goroutines: the caller of subscribe for an id, the forwarding goroutine
\* of an id, and the clients that call unsubscribe
Threads == ({"sub", "fwd"} \X Ids) \cup ({"cli"} \X Clients)

\* pubsub_api.go NewAPI: no subscription, and no goroutine but the idle callers
NewAPI ==
    /\ filters = <<>>
    /\ filtersMu = <<>>
    /\ unsubscribed = <<>>
    /\ eventSubs = {}
    /\ goroutines = [t \in Threads |->
                       [pc |-> IF t[1] = "fwd" THEN "none" ELSE "idle",
                        id |-> IF t[1] = "cli" THEN "s1" ELSE t[2],
                        method |-> "newHeads", err |-> "nil", n |-> 0,
                        ret |-> "none"]]
    /\ panicked = <<>>
    /\ wsHistory = [last |-> [thread |-> <<>>, op |-> "new", id |-> "s1",
                              ret |-> "none"],
                    returnedTrue |-> [i \in Ids |-> <<>>],
                    registered |-> {}, errRemoved |-> {},
                    events |-> MaxEvents, calls |-> MaxUnsubscribes]

---------------------------------------------------------------------------
(* The state as one record, and maps with a partial domain                 *)

D == [accounts |-> accounts, kvCode |-> kvCode, kvStorage |-> kvStorage,
      kvHeightHash |-> kvHeightHash,
      blacklist |-> blacklist, stateObjects |-> stateObjects,
      addressToObjectIndex |-> addressToObjectIndex,
      stateObjectsDirty |-> stateObjectsDirty, refund |-> refund,
      thash |-> thash, bhash |-> bhash, txIndex |-> txIndex,
      logSize |-> logSize, logs |-> logs, preimages |-> preimages,
      hashToPreimageIndex |-> hashToPreimageIndex, dbErr |-> dbErr,
      journal |-> journal, validRevisions |-> validRevisions,
      nextRevisionID |-> nextRevisionID, accessList |-> accessList,
      params |-> params,
      written |-> <<>>]   \* the writes the running call has made to the account keeper

EmptyMap == <<>>

Put(f, k, v) == IF k \in DOMAIN f THEN [f EXCEPT ![k] = v] ELSE f @@ (k :> v)

Remove(f, k) ==
    LET dom == DOMAIN f \ {k}
    IN  IF dom = {} THEN EmptyMap ELSE [x \in dom |-> f[x]]

\* the sequence s without its i-th element
RemoveAt(s, i) == SubSeq(s, 1, i - 1) \o SubSeq(s, i + 1, Len(s))

\* a result of a call: the state it leaves, what it returns, whether it panicked
Ret(d, ret) == [d |-> d, ret |-> ret, trap |-> FALSE]
Trap(d) == [d |-> d, ret |-> None, trap |-> TRUE]

---------------------------------------------------------------------------
(* The live set                                                            *)

Has(d, addr) == addr \in DOMAIN d.addressToObjectIndex

\* the live object of addr: csdb.stateObjects[idx].stateObject
Obj(d, addr) == d.stateObjects[d.addressToObjectIndex[addr] + 1].stateObject

\* a write through the pointer to the live object of addr
WithObj(d, addr, so) ==
    [d EXCEPT !.stateObjects[d.addressToObjectIndex[addr] + 1].stateObject = so]

\* fault injection: setError that remembers the last error
setErrorLast(d, err) == [d EXCEPT !.dbErr = Some(err)]

\* csdb.setError: remembers the first error
setError(d, err) == IF d.dbErr = None THEN [d EXCEPT !.dbErr = Some(err)] ELSE d

\* fault injection: setStateObject that appends whether or not the address is indexed
setStateObjectAppend(d, so) ==
    [d EXCEPT
        !.stateObjects = Append(@, [address |-> so.address, stateObject |-> so]),
        !.addressToObjectIndex = Put(@, so.address, Len(d.stateObjects) + 1 - 1)]

\* csdb.setStateObject
setStateObject(d, so) ==
    IF Has(d, so.address)
    THEN WithObj(d, so.address, so)
    ELSE [d EXCEPT
            !.stateObjects = Append(@, [address |-> so.address, stateObject |-> so]),
            !.addressToObjectIndex = Put(@, so.address, Len(d.stateObjects) + 1 - 1)]

\* csdb.getStateObject: [d, found]; when found, the object is Obj(d, addr)
getStateObject(d, addr) ==
    IF Has(d, addr)
    THEN [d |-> d, found |-> ~Obj(d, addr).deleted]
    ELSE IF addr \notin DOMAIN d.accounts
         THEN [d |-> setError(d, <<"no account found for address", addr>>),
               found |-> FALSE]
         ELSE [d |-> setStateObject(d, newStateObject(addr, d.accounts[addr])),
               found |-> TRUE]

\* csdb.GetParams: reads the param space once and caches the set
GetParams(d) == IF d.params = None THEN [d EXCEPT !.params = Some(EvmParams)] ELSE d

---------------------------------------------------------------------------
(* The journal (journal.go)                                                *)

AccountKinds == {"createObject", "resetObject", "suicide", "balance", "nonce",
                 "storage", "code"}

\* journalEntry.dirtied(): the address an entry marks dirty, if any
dirtied(e) == IF e.kind \in AccountKinds THEN Some(e.account) ELSE None

\* journal.append
append(d, e) == [d EXCEPT !.journal = Append(@, e)]

\* journal.length
length(d) == Len(d.journal)

RECURSIVE DirtiesOf(_, _)
DirtiesOf(entries, seen) ==
    IF entries = <<>> THEN <<>>
    ELSE LET a == dirtied(Head(entries))
         IN  IF a = None \/ a[1] \in seen
             THEN DirtiesOf(Tail(entries), seen)
             ELSE <<a[1]>> \o DirtiesOf(Tail(entries), seen \cup {a[1]})

\* journal.dirties: the dirty addresses of the entries, in the order they first occur
dirties(d) == DirtiesOf(d.journal, {})

---------------------------------------------------------------------------
(* State object operations (state_object.go).  `addr' names the live object *)
(* the Go code holds a pointer to.                                          *)

\* position of key in the dirty storage, 0 when it has no entry
RECURSIVE DirtyIndexFrom(_, _, _)
DirtyIndexFrom(ds, key, i) ==
    IF i > Len(ds) THEN 0
    ELSE IF ds[i].key = key THEN i
    ELSE DirtyIndexFrom(ds, key, i + 1)

DirtyIndex(so, key) == DirtyIndexFrom(so.dirtyStorage, key, 1)

\* the value of a slot in the KV store, the zero hash when the key is absent
StoreValue(d, addr, key) ==
    IF <<addr, key>> \in DOMAIN d.kvStorage THEN d.kvStorage[<<addr, key>>] ELSE ZeroHash

\* fault injection: GetCommittedState that sees the pending write of the key
soGetCommittedStatePending(d, addr, key) ==
    LET so == Obj(d, addr)
        i == DirtyIndex(so, key)
    IN  IF i # 0 THEN Ret(d, so.dirtyStorage[i].value)
        ELSE IF key \in DOMAIN so.originStorage THEN Ret(d, so.originStorage[key])
        ELSE Ret(d, StoreValue(d, addr, key))

\* stateObject.GetCommittedState: origin storage, else the store (then cached)
soGetCommittedState(d, addr, key) ==
    LET so == Obj(d, addr)
    IN  IF key \in DOMAIN so.originStorage
        THEN Ret(d, so.originStorage[key])
        ELSE LET v == StoreValue(d, addr, key)
             IN  Ret(WithObj(d, addr, [so EXCEPT !.originStorage = Put(@, key, v)]), v)

\* stateObject.GetState: dirty storage, else the committed state
soGetState(d, addr, key) ==
    LET so == Obj(d, addr)
        i == DirtyIndex(so, key)
    IN  IF i # 0 THEN Ret(d, so.dirtyStorage[i].value)
        ELSE soGetCommittedState(d, addr, key)

\* stateObject.setState: one entry per key in the dirty storage
sosetState(so, key, value) ==
    LET i == DirtyIndex(so, key)
    IN  IF i # 0 THEN [so EXCEPT !.dirtyStorage[i].value = value]
        ELSE [so EXCEPT !.dirtyStorage = Append(@, [key |-> key, value |-> value])]

\* stateObject.SetState
soSetState(d, addr, key, value) ==
    LET r == soGetState(d, addr, key)
        so == Obj(r.d, addr)
    IN  IF r.ret = value THEN r.d
        ELSE WithObj(append(r.d, [kind |-> "storage", account |-> addr, key |-> key,
                                  prevalue |-> r.ret,
                                  wasDirty |-> DirtyIndex(so, key) # 0]),
                     addr, sosetState(so, key, value))

\* stateObject.SetBalance
soSetBalance(d, addr, amount) ==
    LET so == Obj(d, addr)
    IN  WithObj(append(d, [kind |-> "balance", account |-> addr,
                           prev |-> so.account.balance]),
                addr, [so EXCEPT !.account.balance =
                                    NewDecFromBigIntWithPrec(amount, Precision)])

\* stateObject.AddBalance
soAddBalance(d, addr, amount) == soSetBalance(d, addr, Balance(Obj(d, addr)) + amount)

\* fault injection: SubBalance that subtracts whatever the balance is
soSubBalanceUnchecked(d, addr, amount) ==
    Ret(soSetBalance(d, addr, Balance(Obj(d, addr)) - amount), None)

\* stateObject.SubBalance: subtracting more than the balance is fatal
soSubBalance(d, addr, amount) ==
    IF amount > Balance(Obj(d, addr)) THEN Trap(d)
    ELSE Ret(soSetBalance(d, addr, Balance(Obj(d, addr)) - amount), None)

\* stateObject.SetNonce
soSetNonce(d, addr, nonce) ==
    LET so == Obj(d, addr)
    IN  WithObj(append(d, [kind |-> "nonce", account |-> addr, prev |-> Nonce(so)]),
                addr, [so EXCEPT !.account.nonce = nonce])

\* stateObject.SetCode
soSetCode(d, addr, hash, code) ==
    LET so == Obj(d, addr)
    IN  WithObj(append(d, [kind |-> "code", account |-> addr, prevcode |-> so.code,
                           prevhash |-> CodeHash(so), prevDirty |-> so.dirtyCode]),
                addr, [so EXCEPT !.code = code, !.account.codeHash = hash,
                                 !.dirtyCode = TRUE])

\* stateObject.markSuicided
markSuicided(so) == [so EXCEPT !.suicided = TRUE]

\* fault injection: commitCode that writes nothing
commitCodeNowhere(d, addr) == d

\* stateObject.commitCode: writes code hash -> code to the KV store
commitCode(d, addr) ==
    LET so == Obj(d, addr)
    IN  [d EXCEPT !.kvCode = Put(@, CodeHash(so), so.code[1])]

RECURSIVE FlushStorage(_, _, _)
FlushStorage(kv, addr, ds) ==
    IF ds = <<>> THEN kv
    ELSE LET e == Head(ds)
         IN  FlushStorage(IF e.value = ZeroHash THEN Remove(kv, <<addr, e.key>>)
                                                ELSE Put(kv, <<addr, e.key>>, e.value),
                          addr, Tail(ds))

RECURSIVE FlushOrigin(_, _)
FlushOrigin(origin, ds) ==
    IF ds = <<>> THEN origin
    ELSE FlushOrigin(Put(origin, Head(ds).key, Head(ds).value), Tail(ds))

\* stateObject.commitState: flushes the dirty storage into the KV store
commitState(d, addr) ==
    LET so == Obj(d, addr)
    IN  WithObj([d EXCEPT !.kvStorage = FlushStorage(@, addr, so.dirtyStorage)],
                addr,
                [so EXCEPT !.originStorage = FlushOrigin(@, so.dirtyStorage),
                           !.dirtyStorage = <<>>])

---------------------------------------------------------------------------
(* The access list (access_list.go): address -> the set of its slots       *)

newAccessList == EmptyMap

ContainsAddress(al, a) == a \in DOMAIN al

\* accessList.Contains: (address present, slot present)
Contains(al, a, s) ==
    IF a \notin DOMAIN al THEN <<FALSE, FALSE>> ELSE <<TRUE, s \in al[a]>>

\* accessList.AddAddress: [al, added]
AddAddress(al, a) ==
    IF a \in DOMAIN al THEN [al |-> al, added |-> FALSE]
    ELSE [al |-> Put(al, a, {}), added |-> TRUE]

\* accessList.AddSlot: [al, addrAdded, slotAdded]
AddSlot(al, a, s) ==
    IF a \notin DOMAIN al
    THEN [al |-> Put(al, a, {s}), addrAdded |-> TRUE, slotAdded |-> TRUE]
    ELSE IF s \in al[a]
         THEN [al |-> al, addrAdded |-> FALSE, slotAdded |-> FALSE]
         ELSE [al |-> Put(al, a, al[a] \cup {s}), addrAdded |-> FALSE,
               slotAdded |-> TRUE]

\* accessList.DeleteAddress: the address goes, with the slots it owned
DeleteAddress(al, a) == Remove(al, a)

\* accessList.DeleteSlot
DeleteSlot(al, a, s) == IF a \in DOMAIN al THEN Put(al, a, al[a] \ {s}) ELSE al

---------------------------------------------------------------------------
(* Undoing journal entries (journal.go)                                    *)

\* fault injection: createObjectChange.revert that keeps the object
undoCreateObjectKeep(d, e) == d

\* createObjectChange.revert: the object leaves the live set and the index
undoCreateObject(d, e) ==
    IF ~Has(d, e.account) THEN d
    ELSE LET idx == d.addressToObjectIndex[e.account]
             rest == Remove(d.addressToObjectIndex, e.account)
         IN  [d EXCEPT
                !.stateObjects = RemoveAt(@, idx + 1),
                !.addressToObjectIndex =
                    IF rest = EmptyMap THEN EmptyMap
                    ELSE [a \in DOMAIN rest |->
                            IF rest[a] > idx THEN rest[a] - 1 ELSE rest[a]]]

\* resetObjectChange.revert: the previous object is back at the same index
undoResetObject(d, e) == setStateObject(d, e.prev)

\* the undo of an entry about a live object; nothing to restore once the
\* object has left the live set
undoOnObject(d, e) ==
    IF ~Has(d, e.account) THEN d
    ELSE LET so == Obj(d, e.account)
         IN  WithObj(d, e.account,
                CASE e.kind = "suicide" ->
                        [so EXCEPT !.suicided = e.prev, !.account.balance = e.prevBalance]
                  [] e.kind = "balance" -> [so EXCEPT !.account.balance = e.prev]
                  [] e.kind = "nonce" -> [so EXCEPT !.account.nonce = e.prev]
                  [] e.kind = "storage" ->
                        IF e.wasDirty THEN sosetState(so, e.key, e.prevalue)
                        ELSE [so EXCEPT !.dirtyStorage =
                                 SelectSeq(@, LAMBDA x : x.key # e.key)]
                  [] e.kind = "code" ->
                        [so EXCEPT !.code = e.prevcode, !.account.codeHash = e.prevhash,
                                   !.dirtyCode = e.prevDirty])

\* addLogChange.revert: the last log goes, log_size goes down by one
undoAddLog(d, e) ==
    [d EXCEPT !.logs = IF @ = <<>> THEN <<>> ELSE SubSeq(@, 1, Len(@) - 1),
              !.logSize = @ - 1]

\* addPreimageChange.revert: the entry of the hash goes
undoAddPreimage(d, e) ==
    IF e.hash \notin DOMAIN d.hashToPreimageIndex THEN d
    ELSE LET idx == d.hashToPreimageIndex[e.hash]
             rest == Remove(d.hashToPreimageIndex, e.hash)
         IN  [d EXCEPT
                !.preimages = RemoveAt(@, idx + 1),
                !.hashToPreimageIndex =
                    IF rest = EmptyMap THEN EmptyMap
                    ELSE [h \in DOMAIN rest |->
                            IF rest[h] > idx THEN rest[h] - 1 ELSE rest[h]]]

\* journalEntry.revert
undo(d, e) ==
    CASE e.kind = "createObject" -> undoCreateObject(d, e)
      [] e.kind = "resetObject" -> undoResetObject(d, e)
      [] e.kind \in {"suicide", "balance", "nonce", "storage", "code"} ->
            undoOnObject(d, e)
      [] e.kind = "refund" -> [d EXCEPT !.refund = e.prev]
      [] e.kind = "addLog" -> undoAddLog(d, e)
      [] e.kind = "addPreimage" -> undoAddPreimage(d, e)
      [] e.kind = "accessListAddAccount" ->
            [d EXCEPT !.accessList = DeleteAddress(@, e.address)]
      [] e.kind = "accessListAddSlot" ->
            [d EXCEPT !.accessList = DeleteSlot(@, e.address, e.slot)]

\* journal.revert: undoes the entries from the last one down to the snapshot
RECURSIVE revert(_, _)
revert(d, snapshot) ==
    IF Len(d.journal) <= snapshot THEN d
    ELSE LET e == d.journal[Len(d.journal)]
             u == undo(d, e)
         IN  revert([u EXCEPT !.journal = SubSeq(d.journal, 1, Len(d.journal) - 1)],
                    snapshot)

---------------------------------------------------------------------------
(* CommitStateDB: object creation and the setters (statedb.go)             *)

\* fault injection: createObject that writes the new account to the store
createObjectStored(d, addr) ==
    LET r == getStateObject(d, addr)
        prevObj == IF r.found THEN Some(Obj(r.d, addr)) ELSE None
        newObj == [newStateObject(addr, NewAccountWithAddress)
                      EXCEPT !.account.nonce = 0]
        j == IF prevObj = None
             THEN append(r.d, [kind |-> "createObject", account |-> addr])
             ELSE append(r.d, [kind |-> "resetObject", account |-> addr,
                               prev |-> prevObj[1]])
    IN  [d |-> [setStateObject(j, newObj)
                   EXCEPT !.accounts = Put(@, addr, NewAccountWithAddress)],
         prev |-> prevObj]

\* csdb.createObject: [d, hadPrev, prev]
createObject(d, addr) ==
    LET r == getStateObject(d, addr)
        prevObj == IF r.found THEN Some(Obj(r.d, addr)) ELSE None
        newObj == [newStateObject(addr, NewAccountWithAddress)
                      EXCEPT !.account.nonce = 0]
        j == IF prevObj = None
             THEN append(r.d, [kind |-> "createObject", account |-> addr])
             ELSE append(r.d, [kind |-> "resetObject", account |-> addr,
                               prev |-> prevObj[1]])
    IN  [d |-> setStateObject(j, newObj), prev |-> prevObj]

\* csdb.GetOrNewStateObject: the state it leaves; the object is Obj(d, addr)
GetOrNewStateObject(d, addr) ==
    LET r == getStateObject(d, addr)
    IN  IF ~r.found \/ Obj(r.d, addr).deleted
        THEN createObject(r.d, addr).d
        ELSE r.d

\* fault injection: CreateAccount that drops the balance of the previous object
CreateAccountFresh(d, addr) == Ret(createObject(d, addr).d, None)

\* csdb.CreateAccount
CreateAccount(d, addr) ==
    LET c == createObject(d, addr)
    IN  IF c.prev # None
        THEN LET p == GetParams(c.d)
                 newobj == Obj(p, addr)
             IN  Ret(WithObj(p, addr,
                        [newobj EXCEPT !.account.balance =
                            NewDecFromBigIntWithPrec(Balance(c.prev[1]), Precision)]),
                     None)
        ELSE Ret(c.d, None)

\* csdb.SetBalance
SetBalance(d, addr, amount) ==
    Ret(soSetBalance(GetOrNewStateObject(d, addr), addr, amount), None)

\* csdb.AddBalance
AddBalance(d, addr, amount) ==
    Ret(soAddBalance(GetOrNewStateObject(d, addr), addr, amount), None)

\* csdb.SubBalance
SubBalance(d, addr, amount) == soSubBalance(GetOrNewStateObject(d, addr), addr, amount)

\* csdb.SetNonce
SetNonce(d, addr, nonce) ==
    Ret(soSetNonce(GetOrNewStateObject(d, addr), addr, nonce), None)

\* csdb.SetState
SetState(d, addr, key, value) ==
    Ret(soSetState(GetOrNewStateObject(d, addr), addr, key, value), None)

\* the bytes of a byte slice: none for the nil slice
Bytes(code) == IF code = None THEN <<>> ELSE code[1]

\* csdb.SetCode; the slice is nil (None) or holds bytes (Some)
SetCode(d, addr, code) ==
    Ret(soSetCode(GetOrNewStateObject(d, addr), addr, Keccak256(Bytes(code)), code),
        None)

\* fault injection: Suicide that marks the object and leaves its balance
SuicideKeepBalance(d, addr) ==
    LET r == getStateObject(d, addr)
    IN  IF ~r.found THEN Ret(r.d, FALSE)
        ELSE LET so == Obj(r.d, addr)
                 j == append(r.d, [kind |-> "suicide", account |-> addr,
                                   prev |-> so.suicided,
                                   prevBalance |->
                                     NewDecFromBigIntWithPrec(Balance(so), Precision)])
             IN  Ret(WithObj(j, addr, markSuicided(so)), TRUE)

\* csdb.Suicide
Suicide(d, addr) ==
    LET r == getStateObject(d, addr)
    IN  IF ~r.found THEN Ret(r.d, FALSE)
        ELSE LET so == Obj(r.d, addr)
                 j == append(r.d, [kind |-> "suicide", account |-> addr,
                                   prev |-> so.suicided,
                                   prevBalance |->
                                     NewDecFromBigIntWithPrec(Balance(so), Precision)])
             IN  Ret(soSetBalance(WithObj(j, addr, markSuicided(so)), addr, 0), TRUE)

---------------------------------------------------------------------------
(* Logs, preimages, refund, access list (statedb.go)                       *)

\* csdb.SetLogs
SetLogs(d, hash, newLogs) == Ret([d EXCEPT !.logs = newLogs], None)

\* csdb.DeleteLogs
DeleteLogs(d, hash) == [d EXCEPT !.logs = <<>>]

\* fault injection: AddLog that leaves log_size as it was
AddLogKeepSize(d, log) ==
    LET j == append(d, [kind |-> "addLog", txhash |-> d.thash])
        stamped == [log EXCEPT !.TxHash = d.thash, !.BlockHash = d.bhash,
                               !.TxIndex = Uint(d.txIndex), !.Index = d.logSize]
    IN  Ret([j EXCEPT !.logs = Append(@, stamped)], None)

\* csdb.AddLog
AddLog(d, log) ==
    LET j == append(d, [kind |-> "addLog", txhash |-> d.thash])
        stamped == [log EXCEPT !.TxHash = d.thash, !.BlockHash = d.bhash,
                               !.TxIndex = Uint(d.txIndex), !.Index = d.logSize]
    IN  Ret([j EXCEPT !.logSize = d.logSize + 1, !.logs = Append(@, stamped)], None)

\* fault injection: AddPreimage that records the preimage of a hash it already holds
AddPreimageAgain(d, hash, preimage) ==
    LET j == append(d, [kind |-> "addPreimage", hash |-> hash])
    IN  Ret([j EXCEPT
               !.preimages = Append(@, [hash |-> hash, preimage |-> preimage]),
               !.hashToPreimageIndex = Put(@, hash, Len(d.preimages) + 1 - 1)],
            None)

\* csdb.AddPreimage
AddPreimage(d, hash, preimage) ==
    IF hash \notin DOMAIN d.hashToPreimageIndex
    THEN LET j == append(d, [kind |-> "addPreimage", hash |-> hash])
         IN  Ret([j EXCEPT
                    !.preimages = Append(@, [hash |-> hash, preimage |-> preimage]),
                    !.hashToPreimageIndex = Put(@, hash, Len(d.preimages) + 1 - 1)],
                 None)
    ELSE Ret(d, None)

\* csdb.AddRefund
AddRefund(d, gas) ==
    Ret([append(d, [kind |-> "refund", prev |-> d.refund])
            EXCEPT !.refund = U64Add(d.refund, gas)], None)

\* fault injection: SubRefund without the check, the subtraction wraps around
SubRefundUnchecked(d, gas) ==
    Ret([append(d, [kind |-> "refund", prev |-> d.refund])
            EXCEPT !.refund = U64Sub(d.refund, gas)], None)

\* csdb.SubRefund
SubRefund(d, gas) ==
    LET j == append(d, [kind |-> "refund", prev |-> d.refund])
    IN  IF U64Gt(gas, d.refund) THEN Trap(j)
        ELSE Ret([j EXCEPT !.refund = U64Sub(d.refund, gas)], None)

\* csdb.GetRefund
GetRefund(d) == d.refund

\* fault injection: AddAddressToAccessList that journals the add of an address
\* that is already present
AddAddressAlwaysJournalled(d, addr) ==
    LET r == AddAddress(d.accessList, addr)
    IN  Ret(append([d EXCEPT !.accessList = r.al],
                   [kind |-> "accessListAddAccount", address |-> addr]), None)

\* csdb.AddAddressToAccessList
AddAddressToAccessList(d, addr) ==
    LET r == AddAddress(d.accessList, addr)
        a == [d EXCEPT !.accessList = r.al]
    IN  Ret(IF r.added
            THEN append(a, [kind |-> "accessListAddAccount", address |-> addr])
            ELSE a, None)

\* csdb.AddSlotToAccessList
AddSlotToAccessList(d, addr, slot) ==
    LET r == AddSlot(d.accessList, addr, slot)
        a == [d EXCEPT !.accessList = r.al]
        b == IF r.addrAdded
             THEN append(a, [kind |-> "accessListAddAccount", address |-> addr])
             ELSE a
    IN  Ret(IF r.slotAdded
            THEN append(b, [kind |-> "accessListAddSlot", address |-> addr,
                            slot |-> slot])
            ELSE b, None)

\* csdb.AddressInAccessList
AddressInAccessList(d, addr) == ContainsAddress(d.accessList, addr)

\* fault injection: SlotInAccessList with its two results swapped
SlotInAccessListSwapped(d, addr, slot) ==
    <<Contains(d.accessList, addr, slot)[2], Contains(d.accessList, addr, slot)[1]>>

\* csdb.SlotInAccessList
SlotInAccessList(d, addr, slot) == Contains(d.accessList, addr, slot)

\* csdb.Prepare
Prepare(d, th, bh, txi) ==
    Ret([d EXCEPT !.thash = th, !.bhash = bh, !.txIndex = txi], None)

\* csdb.SetBlockHash
SetBlockHash(d, hash) == Ret([d EXCEPT !.bhash = hash], None)

\* csdb.TxIndex / csdb.BlockHash
TxIndex(d) == d.txIndex
BlockHash(d) == d.bhash

---------------------------------------------------------------------------
(* Persistence (statedb.go)                                                *)

\* sdk.Coin.IsValid for the coin of the EVM denomination: the amount is not negative
IsValid(amount) == amount.int >= 0

\* fault injection: coins.Add on every write
UpdatedCoinsAccumulated(coins, newBalance) == [int |-> coins.int + newBalance.int]

\* the coins of the account after updateStateObject's coins.Add
UpdatedCoins(coins, newBalance) ==
    IF coins.int = 0 \/ coins # newBalance
    THEN [int |-> coins.int + newBalance.int]
    ELSE coins

\* csdb.updateStateObject: [d, err]
updateStateObject(d, addr) ==
    LET p == GetParams(d)
        so == Obj(p, addr)
        newBalance == NewDecFromBigIntWithPrec(Balance(so), Precision)
    IN  IF ~IsValid(newBalance)
        THEN [d |-> p, err |-> Some("invalid balance")]
        ELSE IF addr \in p.blacklist
        THEN [d |-> p, err |-> Some("address in blacklist is not allowed")]
        ELSE LET coins == UpdatedCoins(so.account.balance, newBalance)
                 acc == [so.account EXCEPT !.balance = coins]
                 w == WithObj(p, addr, [so EXCEPT !.account = acc])
             IN  [d |-> [w EXCEPT !.accounts = Put(@, addr, acc),
                                  !.written = Append(@, [op |-> "SetAccount",
                                                         address |-> addr])],
                  err |-> None]

\* csdb.deleteStateObject
deleteStateObject(d, addr) ==
    LET so == Obj(d, addr)
        w == WithObj(d, addr, [so EXCEPT !.deleted = TRUE])
    IN  [w EXCEPT !.accounts = Remove(@, addr),
                  !.written = Append(@, [op |-> "RemoveAccount", address |-> addr])]

\* fault injection: clearJournalAndRefund that keeps the revisions
clearJournalKeepRevisions(d) ==
    [d EXCEPT !.journal = <<>>, !.refund = U64(0)]

\* csdb.clearJournalAndRefund
clearJournalAndRefund(d) ==
    [d EXCEPT !.journal = <<>>, !.validRevisions = <<>>, !.refund = U64(0)]

\* the loop of Commit over csdb.stateObjects, from the i-th entry: [d, err]
RECURSIVE CommitLoop(_, _, _)
CommitLoop(d, i, deleteEmptyObjects) ==
    IF i > Len(d.stateObjects) THEN [d |-> d, err |-> None]
    ELSE LET addr == d.stateObjects[i].address
             so == d.stateObjects[i].stateObject
             isDirty == addr \in d.stateObjectsDirty
             done(x) == [x EXCEPT !.stateObjectsDirty = @ \ {addr}]
         IN  IF so.suicided \/ (isDirty /\ deleteEmptyObjects /\ empty(so))
             THEN CommitLoop(done(deleteStateObject(d, addr)), i + 1,
                             deleteEmptyObjects)
             ELSE IF isDirty
             THEN LET c == IF so.code # None /\ so.dirtyCode
                           THEN WithObj(commitCode(d, addr), addr,
                                        [so EXCEPT !.dirtyCode = FALSE])
                           ELSE d
                      u == updateStateObject(c, addr)
                  IN  IF u.err # None THEN u
                      ELSE CommitLoop(done(u.d), i + 1, deleteEmptyObjects)
             ELSE CommitLoop(done(d), i + 1, deleteEmptyObjects)

\* fault injection: Commit that never deletes empty objects
CommitKeepEmpty(d, deleteEmptyObjects) ==
    LET marked == [d EXCEPT !.stateObjectsDirty = @ \cup {dirties(d)[i] :
                                                   i \in 1 .. Len(dirties(d))}]
        r == CommitLoop(marked, 1, FALSE)
    IN  Ret(clearJournalAndRefund(r.d), [hash |-> ZeroHash, err |-> r.err])

\* csdb.Commit: the returned hash and error; the journal is cleared on every return
Commit(d, deleteEmptyObjects) ==
    LET marked == [d EXCEPT !.stateObjectsDirty = @ \cup {dirties(d)[i] :
                                                   i \in 1 .. Len(dirties(d))}]
        r == CommitLoop(marked, 1, deleteEmptyObjects)
    IN  Ret(clearJournalAndRefund(r.d), [hash |-> ZeroHash, err |-> r.err])

\* the loop of Finalise over journal.dirties, from the i-th address: [d, err]
RECURSIVE FinaliseLoop(_, _, _, _)
FinaliseLoop(d, ds, i, deleteEmptyObjects) ==
    IF i > Len(ds) THEN [d |-> d, err |-> None]
    ELSE LET addr == ds[i]
             mark(x) == [x EXCEPT !.stateObjectsDirty = @ \cup {addr}]
         IN  IF ~Has(d, addr)
             THEN FinaliseLoop(d, ds, i + 1, deleteEmptyObjects)
             ELSE LET so == Obj(d, addr)
                  IN  IF so.suicided \/ (deleteEmptyObjects /\ empty(so))
                      THEN FinaliseLoop(mark(deleteStateObject(d, addr)), ds, i + 1,
                                        deleteEmptyObjects)
                      ELSE LET u == updateStateObject(commitState(d, addr), addr)
                           IN  IF u.err # None THEN u
                               ELSE FinaliseLoop(mark(u.d), ds, i + 1,
                                                 deleteEmptyObjects)

\* fault injection: Finalise that walks journal.dirties from its end
FinaliseBackwards(d, deleteEmptyObjects) ==
    LET ds == dirties(d)
        r == FinaliseLoop(d, [i \in 1 .. Len(ds) |-> ds[Len(ds) + 1 - i]], 1,
                          deleteEmptyObjects)
    IN  IF r.err # None THEN Ret(r.d, r.err)
        ELSE Ret(DeleteLogs(clearJournalAndRefund(r.d), r.d.thash), None)

\* csdb.Finalise: the returned error
Finalise(d, deleteEmptyObjects) ==
    LET r == FinaliseLoop(d, dirties(d), 1, deleteEmptyObjects)
    IN  IF r.err # None THEN Ret(r.d, r.err)
        ELSE Ret(DeleteLogs(clearJournalAndRefund(r.d), r.d.thash), None)

\* fault injection: IntermediateRoot that returns a root of its own on success
IntermediateRootNonZero(d, deleteEmptyObjects) ==
    LET r == Finalise(d, deleteEmptyObjects)
    IN  Ret(r.d, [hash |-> IF r.ret = None THEN "b1" ELSE ZeroHash, err |-> r.ret])

\* csdb.IntermediateRoot: the returned hash and error
IntermediateRoot(d, deleteEmptyObjects) ==
    LET r == Finalise(d, deleteEmptyObjects)
    IN  Ret(r.d, [hash |-> ZeroHash, err |-> r.ret])

---------------------------------------------------------------------------
(* Snapshots (statedb.go)                                                  *)

\* csdb.Snapshot
Snapshot(d) ==
    LET id == d.nextRevisionID
    IN  Ret([d EXCEPT !.nextRevisionID = id + 1,
                      !.validRevisions =
                          Append(@, [id |-> id, journalIndex |-> length(d)])],
            id)

\* sort.Search(n, f) with f(i) = validRevisions[i].id >= revID, on [i, j), 0-based
RECURSIVE SearchFrom(_, _, _, _)
SearchFrom(revs, revID, i, j) ==
    IF i < j
    THEN LET h == (i + j) \div 2
         IN  IF ~(revs[h + 1].id >= revID)
             THEN SearchFrom(revs, revID, h + 1, j)
             ELSE SearchFrom(revs, revID, i, h)
    ELSE i

\* fault injection: RevertToSnapshot that drops the revisions from the searched
\* position on before it finds the id invalid
RevertToSnapshotDropFirst(d, revID) ==
    LET idx == SearchFrom(d.validRevisions, revID, 0, Len(d.validRevisions))
    IN  IF idx = Len(d.validRevisions) \/ d.validRevisions[idx + 1].id # revID
        THEN Trap([d EXCEPT !.validRevisions = SubSeq(@, 1, idx)])
        ELSE LET snapshot == d.validRevisions[idx + 1].journalIndex
                 r == revert(d, snapshot)
             IN  Ret([r EXCEPT !.validRevisions = SubSeq(d.validRevisions, 1, idx)],
                     None)

\* fault injection: RevertToSnapshot that keeps the revision it reverted to
RevertToSnapshotKeepId(d, revID) ==
    LET idx == SearchFrom(d.validRevisions, revID, 0, Len(d.validRevisions))
    IN  IF idx = Len(d.validRevisions) \/ d.validRevisions[idx + 1].id # revID
        THEN Trap(d)
        ELSE LET snapshot == d.validRevisions[idx + 1].journalIndex
                 r == revert(d, snapshot)
             IN  Ret([r EXCEPT !.validRevisions = SubSeq(d.validRevisions, 1, idx + 1)],
                     None)

\* csdb.RevertToSnapshot
RevertToSnapshot(d, revID) ==
    LET idx == SearchFrom(d.validRevisions, revID, 0, Len(d.validRevisions))
    IN  IF idx = Len(d.validRevisions) \/ d.validRevisions[idx + 1].id # revID
        THEN Trap(d)
        ELSE LET snapshot == d.validRevisions[idx + 1].journalIndex
                 r == revert(d, snapshot)
             IN  Ret([r EXCEPT !.validRevisions = SubSeq(d.validRevisions, 1, idx)],
                     None)

---------------------------------------------------------------------------
(* Auxiliary (statedb.go)                                                  *)

\* fault injection: Reset that keeps the preimages
ResetKeepPreimages(d) ==
    Ret(clearJournalAndRefund(
          [d EXCEPT !.stateObjects = <<>>, !.addressToObjectIndex = EmptyMap,
                    !.stateObjectsDirty = {}, !.thash = ZeroHash, !.bhash = ZeroHash,
                    !.txIndex = 0, !.logSize = 0, !.accessList = newAccessList,
                    !.params = None]),
        None)

\* fault injection: Reset that drops the logs as well
ResetDropLogs(d) ==
    Ret(clearJournalAndRefund(
          [d EXCEPT !.stateObjects = <<>>, !.addressToObjectIndex = EmptyMap,
                    !.stateObjectsDirty = {}, !.thash = ZeroHash, !.bhash = ZeroHash,
                    !.txIndex = 0, !.logSize = 0, !.logs = <<>>, !.preimages = <<>>,
                    !.hashToPreimageIndex = EmptyMap, !.accessList = newAccessList,
                    !.params = None]),
        None)

\* csdb.Reset
Reset(d) ==
    Ret(clearJournalAndRefund(
          [d EXCEPT !.stateObjects = <<>>, !.addressToObjectIndex = EmptyMap,
                    !.stateObjectsDirty = {}, !.thash = ZeroHash, !.bhash = ZeroHash,
                    !.txIndex = 0, !.logSize = 0, !.preimages = <<>>,
                    !.hashToPreimageIndex = EmptyMap, !.accessList = newAccessList,
                    !.params = None]),
        None)

\* fault injection: ClearStateObjects that drops the journal as well
ClearStateObjectsAndJournal(d) ==
    Ret([d EXCEPT !.stateObjects = <<>>, !.addressToObjectIndex = EmptyMap,
                  !.stateObjectsDirty = {}, !.journal = <<>>], None)

\* csdb.ClearStateObjects
ClearStateObjects(d) ==
    Ret([d EXCEPT !.stateObjects = <<>>, !.addressToObjectIndex = EmptyMap,
                  !.stateObjectsDirty = {}], None)

---------------------------------------------------------------------------
(* Getters (statedb.go), as functions of the state.  The state a getter    *)
(* leaves (an object loaded into the live set, dbErr) is getStateObject's. *)

\* csdb.Exist
Exist(d, addr) == getStateObject(d, addr).found

\* csdb.GetBalance
GetBalance(d, addr) ==
    LET r == getStateObject(d, addr)
    IN  IF r.found THEN Balance(Obj(r.d, addr)) ELSE BigInt(ZeroDec)

\* csdb.GetNonce
GetNonce(d, addr) ==
    LET r == getStateObject(d, addr)
    IN  IF r.found THEN Nonce(Obj(r.d, addr)) ELSE 0

\* stateObject.Code: the cached code, else the code the store holds for the hash
soCode(d, so) ==
    IF so.code # None THEN so.code[1]
    ELSE IF CodeHash(so) \in DOMAIN d.kvCode THEN d.kvCode[CodeHash(so)]
    ELSE <<>>

\* csdb.GetCode
GetCode(d, addr) ==
    LET r == getStateObject(d, addr)
    IN  IF r.found THEN soCode(r.d, Obj(r.d, addr)) ELSE <<>>

\* csdb.GetCodeSize
GetCodeSize(d, addr) ==
    LET r == getStateObject(d, addr)
    IN  IF ~r.found THEN 0
        ELSE IF Obj(r.d, addr).code # None THEN Len(Obj(r.d, addr).code[1])
        ELSE Len(soCode(r.d, Obj(r.d, addr)))

\* csdb.GetCodeHash
GetCodeHash(d, addr) ==
    LET r == getStateObject(d, addr)
    IN  IF r.found THEN CodeHash(Obj(r.d, addr)) ELSE ZeroCodeHash

\* csdb.GetState
GetState(d, addr, key) ==
    LET r == getStateObject(d, addr)
    IN  IF r.found THEN soGetState(r.d, addr, key).ret ELSE ZeroHash

\* csdb.GetCommittedState
GetCommittedState(d, addr, key) ==
    LET r == getStateObject(d, addr)
    IN  IF r.found THEN soGetCommittedState(r.d, addr, key).ret ELSE ZeroHash

\* csdb.HasSuicided
HasSuicided(d, addr) ==
    LET r == getStateObject(d, addr)
    IN  IF r.found THEN Obj(r.d, addr).suicided ELSE FALSE

\* csdb.Empty
Empty(d, addr) ==
    LET r == getStateObject(d, addr)
    IN  ~r.found \/ empty(Obj(r.d, addr))

\* csdb.GetLogs
GetLogs(d, hash) == d.logs

\* csdb.Error
Error(d) == d.dbErr

\* the getters that resolve an object
Getters == {"GetNonce", "GetCode", "GetCodeSize", "GetCodeHash", "GetState",
            "GetCommittedState"}

\* a call of a getter: what it returns and the state it leaves, which is that
\* of getStateObject and, for the storage getters, of the object's read
Read(d, getter, addr, key) ==
    LET r == getStateObject(d, addr)
    IN  CASE getter = "GetNonce" -> Ret(r.d, GetNonce(d, addr))
          [] getter = "GetCode" -> Ret(r.d, GetCode(d, addr))
          [] getter = "GetCodeSize" -> Ret(r.d, GetCodeSize(d, addr))
          [] getter = "GetCodeHash" -> Ret(r.d, GetCodeHash(d, addr))
          [] getter = "GetState" ->
                IF r.found THEN soGetState(r.d, addr, key) ELSE Ret(r.d, ZeroHash)
          [] getter = "GetCommittedState" ->
                IF r.found THEN soGetCommittedState(r.d, addr, key)
                ELSE Ret(r.d, ZeroHash)

\* csdb.Preimages: hash -> preimage, a later entry of a hash over an earlier one
RECURSIVE PreimagesFrom(_, _)
PreimagesFrom(entries, m) ==
    IF entries = <<>> THEN m
    ELSE PreimagesFrom(Tail(entries), Put(m, Head(entries).hash, Head(entries).preimage))

Preimages(d) == PreimagesFrom(d.preimages, EmptyMap)

\* AccountKeeper.GetAccount: is there an account record for addr
HasAccount(d, addr) == addr \in DOMAIN d.accounts

\* everything a caller can read through the overlay
View(d) ==
    [account |-> [a \in Addresses |->
                    [exist |-> Exist(d, a), balance |-> GetBalance(d, a),
                     nonce |-> GetNonce(d, a), code |-> GetCode(d, a),
                     codeHash |-> GetCodeHash(d, a),
                     storage |-> [k \in Keys |-> GetState(d, a, k)],
                     suicided |-> HasSuicided(d, a)]],
     refund |-> GetRefund(d), logs |-> GetLogs(d, d.thash), logSize |-> d.logSize,
     preimages |-> Preimages(d),
     accessList |-> [a \in Addresses |->
                       [present |-> AddressInAccessList(d, a),
                        slots |-> [s \in Slots |-> SlotInAccessList(d, a, s)]]]]

---------------------------------------------------------------------------
(* The calls as actions                                                    *)

\* the calls whose changes all go through the journal: a snapshot taken
\* before them can be reverted to
JournalledOps ==
    {"SetBalance", "AddBalance", "SubBalance", "SetNonce", "SetCode", "SetState",
     "CreateAccount", "Suicide", "AddLog", "AddPreimage", "AddRefund", "SubRefund",
     "AddAddressToAccessList", "AddSlotToAccessList", "Snapshot", "RevertToSnapshot"}

ValidIds(d) == {d.validRevisions[i].id : i \in 1 .. Len(d.validRevisions)}

\* history: what was readable when each valid revision was taken, and whether
\* only journalled calls were made since
NewSnapView(op, d) ==
    IF ValidIds(d) = {} THEN EmptyMap
    ELSE [id \in ValidIds(d) |->
            IF id \in DOMAIN snapView
            THEN [view |-> snapView[id].view,
                  clean |-> snapView[id].clean /\ op \in JournalledOps]
            ELSE [view |-> View(d), clean |-> TRUE]]

\* the part of the state space that is explored
Bounded(d) ==
    /\ Len(d.journal) <= MaxJournal
    /\ d.logSize \in LogSizes
    /\ \A i \in 1 .. Len(d.stateObjects) :
          Balance(d.stateObjects[i].stateObject) <= BalanceCap

Install(d) ==
    /\ accounts' = d.accounts
    /\ kvCode' = d.kvCode
    /\ kvStorage' = d.kvStorage
    /\ kvHeightHash' = d.kvHeightHash
    /\ blacklist' = d.blacklist
    /\ stateObjects' = d.stateObjects
    /\ addressToObjectIndex' = d.addressToObjectIndex
    /\ stateObjectsDirty' = d.stateObjectsDirty
    /\ refund' = d.refund
    /\ thash' = d.thash
    /\ bhash' = d.bhash
    /\ txIndex' = d.txIndex
    /\ logSize' = d.logSize
    /\ logs' = d.logs
    /\ preimages' = d.preimages
    /\ hashToPreimageIndex' = d.hashToPreimageIndex
    /\ dbErr' = d.dbErr
    /\ journal' = d.journal
    /\ validRevisions' = d.validRevisions
    /\ nextRevisionID' = d.nextRevisionID
    /\ accessList' = d.accessList
    /\ params' = d.params

Call(op, args, r) ==
    /\ budget > 0
    /\ budget' = budget - 1
    /\ Bounded(r.d)
    /\ Install(r.d)
    /\ last' = [op |-> op, args |-> args, ret |-> r.ret, trap |-> r.trap,
                written |-> r.d.written]
    /\ snapView' = NewSnapView(op, r.d)
    /\ UNCHANGED wsVars

SetBalanceAct ==
    \E a \in Addresses, m \in SetAmounts : Call("SetBalance", <<a, m>>, SetBalance(D, a, m))

AddBalanceAct ==
    \E a \in Addresses, m \in Amounts : Call("AddBalance", <<a, m>>, AddBalance(D, a, m))

SubBalanceAct ==
    \E a \in Addresses, m \in Amounts : Call("SubBalance", <<a, m>>, SubBalance(D, a, m))

SetNonceAct ==
    \E a \in Addresses, n \in Nonces : Call("SetNonce", <<a, n>>, SetNonce(D, a, n))

SetCodeAct ==
    \E a \in Addresses, c \in Codes : Call("SetCode", <<a, c>>, SetCode(D, a, c))

SetStateAct ==
    \E a \in Addresses, k \in Keys, v \in StorageValues :
        Call("SetState", <<a, k, v>>, SetState(D, a, k, v))

CreateAccountAct ==
    \E a \in Addresses : Call("CreateAccount", <<a>>, CreateAccount(D, a))

SuicideAct ==
    \E a \in Addresses : Call("Suicide", <<a>>, Suicide(D, a))

\* a getter on an address that is not in the live set (on a live address a
\* getter changes nothing): GetBalance, and likewise GetNonce, GetCodeHash,
\* HasSuicided, Exist and Empty
GetBalanceAct ==
    \E a \in Addresses :
        /\ ~Has(D, a)
        /\ Call("GetBalance", <<a>>, Ret(getStateObject(D, a).d, GetBalance(D, a)))

ReadAct ==
    \E g \in Getters, a \in Addresses, k \in Keys :
        Call(g, <<a, k>>, Read(D, g, a, k))

AddLogAct ==
    \E l \in LogPayloads :
        Call("AddLog", <<l>>,
             AddLog(D, [payload |-> l, TxHash |-> ZeroHash, BlockHash |-> ZeroHash,
                        TxIndex |-> U64(0), Index |-> 0]))

SetLogsAct ==
    \E h \in TxHashes, ls \in InstalledLogs : Call("SetLogs", <<h, ls>>, SetLogs(D, h, ls))

AddPreimageAct ==
    \E h \in PreimageHashes, x \in PreimageBytes :
        Call("AddPreimage", <<h, x>>, AddPreimage(D, h, x))

AddRefundAct ==
    \E g \in GasInputs : Call("AddRefund", <<g>>, AddRefund(D, g))

SubRefundAct ==
    \E g \in GasInputs : Call("SubRefund", <<g>>, SubRefund(D, g))

AddAddressToAccessListAct ==
    \E a \in Addresses :
        Call("AddAddressToAccessList", <<a>>, AddAddressToAccessList(D, a))

AddSlotToAccessListAct ==
    \E a \in Addresses, sl \in Slots :
        Call("AddSlotToAccessList", <<a, sl>>, AddSlotToAccessList(D, a, sl))

PrepareAct ==
    \E th \in TxHashes, bh \in BlockHashes, txi \in TxIndexes :
        Call("Prepare", <<th, bh, txi>>, Prepare(D, th, bh, txi))

SetBlockHashAct ==
    \E bh \in NewBlockHashes : Call("SetBlockHash", <<bh>>, SetBlockHash(D, bh))

SnapshotAct ==
    /\ nextRevisionID <= MaxRevisionID
    /\ Call("Snapshot", <<>>, Snapshot(D))

RevertToSnapshotAct ==
    \E id \in -1 .. nextRevisionID :
        Call("RevertToSnapshot", <<id>>, RevertToSnapshot(D, id))

FinaliseAct ==
    \E del \in BOOLEAN : Call("Finalise", <<del>>, Finalise(D, del))

CommitAct ==
    \E del \in BOOLEAN : Call("Commit", <<del>>, Commit(D, del))

ResetAct == Call("Reset", <<>>, Reset(D))

ClearStateObjectsAct == Call("ClearStateObjects", <<>>, ClearStateObjects(D))

---------------------------------------------------------------------------
(* Specifications                                                          *)

\* the overlay as CreateEmptyCommitStateDB leaves it, over a store that holds
\* an empty account for a1 (the tests' SetupTest) and none for a2
StartOver(n, accs, code, storage) ==
    /\ accounts = accs
    /\ kvCode = code
    /\ kvStorage = storage
    /\ kvHeightHash = EmptyMap
    /\ blacklist = {"a2"}
    /\ stateObjects = <<>>
    /\ addressToObjectIndex = EmptyMap
    /\ stateObjectsDirty = {}
    /\ refund = U64(0)
    /\ thash = ZeroHash
    /\ bhash = ZeroHash
    /\ txIndex = 0
    /\ logSize = 0
    /\ logs = <<>>
    /\ preimages = <<>>
    /\ hashToPreimageIndex = EmptyMap
    /\ dbErr = None
    /\ journal = <<>>
    /\ validRevisions = <<>>
    /\ nextRevisionID = 0
    /\ accessList = newAccessList
    /\ params = None
    /\ last = [op |-> "new", args |-> <<>>, ret |-> None, trap |-> FALSE,
               written |-> <<>>]
    /\ snapView = EmptyMap
    /\ budget = n
    /\ NewAPI

Start(n) == StartOver(n, "a1" :> NewAccountWithAddress, EmptyMap, EmptyMap)

Init == Start(MaxCalls)

InitDeep == Start(MaxDeepCalls)

\* accounts: balances, nonces, creation, suicide, snapshots, persistence
Next ==
    \/ SetBalanceAct
    \/ SetNonceAct
    \/ CreateAccountAct
    \/ SuicideAct
    \/ GetBalanceAct
    \/ SnapshotAct
    \/ RevertToSnapshotAct
    \/ FinaliseAct
    \/ CommitAct
    \/ ResetAct
    \/ ClearStateObjectsAct

Spec == Init /\ [][Next]_vars

\* the same calls, one call deeper
SpecDeep == InitDeep /\ [][Next]_vars

\* contract code and storage
NextCode ==
    \/ SetCodeAct
    \/ SetStateAct
    \/ SuicideAct
    \/ SnapshotAct
    \/ RevertToSnapshotAct
    \/ FinaliseAct
    \/ CommitAct
    \/ ClearStateObjectsAct

SpecCode == Init /\ [][NextCode]_vars

\* balance arithmetic
NextBal ==
    \/ SetBalanceAct
    \/ AddBalanceAct
    \/ SubBalanceAct
    \/ SnapshotAct
    \/ RevertToSnapshotAct
    \/ FinaliseAct
    \/ CommitAct

SpecBal == Init /\ [][NextBal]_vars

\* the transaction side: refund counter, access list, logs, snapshots
NextTx ==
    \/ CreateAccountAct
    \/ AddLogAct
    \/ AddRefundAct
    \/ SubRefundAct
    \/ AddAddressToAccessListAct
    \/ AddSlotToAccessListAct
    \/ SnapshotAct
    \/ RevertToSnapshotAct
    \/ FinaliseAct
    \/ ResetAct

SpecTx == Init /\ [][NextTx]_vars

\* logs and preimages
NextLog ==
    \/ AddLogAct
    \/ AddPreimageAct
    \/ PrepareAct
    \/ SetBlockHashAct
    \/ SnapshotAct
    \/ RevertToSnapshotAct
    \/ FinaliseAct
    \/ ResetAct

SpecLog == Init /\ [][NextLog]_vars

\* the access list across snapshots and persistence
NextAcl ==
    \/ AddAddressToAccessListAct
    \/ AddSlotToAccessListAct
    \/ SetNonceAct
    \/ SnapshotAct
    \/ RevertToSnapshotAct
    \/ FinaliseAct
    \/ CommitAct
    \/ ResetAct
    \/ ClearStateObjectsAct

SpecAcl == Init /\ [][NextAcl]_vars

\* what a Reset drops: live objects, logs, preimages, access list, metadata
NextReset ==
    \/ SetNonceAct
    \/ AddLogAct
    \/ SetLogsAct
    \/ AddPreimageAct
    \/ AddAddressToAccessListAct
    \/ PrepareAct
    \/ FinaliseAct
    \/ ResetAct

SpecReset == InitDeep /\ [][NextReset]_vars

\* reads, and the calls that empty the live set and the store
NextRead ==
    \/ GetBalanceAct
    \/ ReadAct
    \/ SetBalanceAct
    \/ FinaliseAct
    \/ CommitAct
    \/ ClearStateObjectsAct
    \/ ResetAct

SpecRead == Init /\ [][NextRead]_vars

\* a store that earlier blocks have written: a1 is a contract with a balance,
\* code and one storage slot
InitOverlay ==
    StartOver(MaxOverlayCalls,
              "a1" :> [balance |-> NewDecFromBigIntWithPrec(1, Precision), nonce |-> 1,
                       codeHash |-> Keccak256(<<1>>)],
              Keccak256(<<1>>) :> <<1>>,
              <<"a1", "k1">> :> "v1")

\* every mutation of the overlay, and the calls that discard it; no
\* Finalise, no Commit
NextOverlay ==
    \/ SetBalanceAct
    \/ AddBalanceAct
    \/ SubBalanceAct
    \/ SetNonceAct
    \/ SetCodeAct
    \/ SetStateAct
    \/ CreateAccountAct
    \/ SuicideAct
    \/ AddLogAct
    \/ AddPreimageAct
    \/ AddRefundAct
    \/ SubRefundAct
    \/ AddAddressToAccessListAct
    \/ AddSlotToAccessListAct
    \/ SnapshotAct
    \/ RevertToSnapshotAct
    \/ ClearStateObjectsAct
    \/ ResetAct

SpecOverlay == InitOverlay /\ [][NextOverlay]_vars

---------------------------------------------------------------------------
(* Properties                                                              *)

\* the outcome of the call that led to the state
Did(op) == last.op = op /\ ~last.trap
Trapped(op) == last.op = op /\ last.trap

\* C1: after a successful RevertToSnapshot(id), when only journalled calls were
\* made since id = Snapshot(), every value readable through the overlay is
\* what it was at the Snapshot()
C1_RevertRestoresView ==
    [][(/\ last'.op = "RevertToSnapshot"
        /\ ~last'.trap
        /\ last'.args[1] \in DOMAIN snapView
        /\ snapView[last'.args[1]].clean)
       => View(D') = snapView[last'.args[1]].view]_vars

\* C2: RevertToSnapshot(id) with an id that is not in validRevisions traps and
\* leaves the journal, validRevisions and every other field as they were
C2_InvalidRevertTrapsUnchanged ==
    [][(last'.op = "RevertToSnapshot" /\ last'.args[1] \notin ValidIds(D))
       => (last'.trap /\ D' = D)]_vars

\* C2 happens: a revert to an id that was issued and then discarded panicked
\* while the journal and the revisions were not empty
C2_Witness ==
    /\ Trapped("RevertToSnapshot")
    /\ last.args[1] >= 0
    /\ last.args[1] < nextRevisionID
    /\ journal # <<>>
    /\ validRevisions # <<>>

\* C3: a successful RevertToSnapshot(id) leaves exactly the revisions with a
\* smaller id, each with its recorded journal length, which the journal still
\* covers; ids only become valid when Snapshot() issues them, and are never
\* issued twice, so a discarded id stays invalid
C3_RevertDiscardsLaterIds ==
    [][/\ (last'.op = "RevertToSnapshot" /\ ~last'.trap)
          => /\ validRevisions' =
                    SelectSeq(validRevisions, LAMBDA r : r.id < last'.args[1])
             /\ \A i \in 1 .. Len(validRevisions) :
                    validRevisions[i].id = last'.args[1]
                        => Len(journal') = validRevisions[i].journalIndex
             /\ \A i \in 1 .. Len(validRevisions') :
                    validRevisions'[i].journalIndex <= Len(journal')
       /\ ValidIds(D') \subseteq ValidIds(D) \cup {nextRevisionID}
       /\ ValidIds(D') \subseteq 0 .. nextRevisionID' - 1
       /\ nextRevisionID' >= nextRevisionID]_vars

\* C3 happens: a revert to the later of two snapshots succeeded, and the
\* earlier one is still valid with entries to undo
C3_Witness ==
    /\ Did("RevertToSnapshot")
    /\ validRevisions # <<>>
    /\ Len(journal) > validRevisions[1].journalIndex

\* C4: a Finalise that returns no error leaves the journal, the refund
\* counter, the logs and the revisions empty; an id only becomes valid when
\* Snapshot() issues it, as the next id, and the next id never goes down, so
\* no id issued before the Finalise is ever valid again
C4_FinaliseClearsTransaction ==
    [][/\ (last'.op = "Finalise" /\ ~last'.trap /\ last'.ret = None)
          => /\ journal' = <<>>
             /\ GetRefund(D') = U64(0)
             /\ GetLogs(D', thash') = <<>>
             /\ ValidIds(D') = {}
       /\ \A id \in ValidIds(D') : id \in ValidIds(D) \/ id >= nextRevisionID
       /\ nextRevisionID' >= nextRevisionID]_vars

\* C4 happens: a Finalise succeeded after a Snapshot(), an AddLog and an
\* AddRefund of the same transaction
C4_Witness ==
    /\ last.op = "Finalise"
    /\ last.ret = None
    /\ nextRevisionID > 0
    /\ logSize > 0

\* the calls after which an address may no longer exist, C5 as stated
C5_StatedEnds == {"Finalise", "Commit"}

\* the same, with the calls that drop or roll back the live objects
C5_Ends == C5_StatedEnds \cup {"RevertToSnapshot", "ClearStateObjects", "Reset"}

\* Suicide(a): false and no change to accounts or live objects when no object
\* resolves for a, else true with balance 0, suicided and still existent; and
\* a suicided address exists through every call not in `ends'
C5_Suicide(ends) ==
    /\ last'.op = "Suicide"
       => LET a == last'.args[1]
          IN  IF ~Exist(D, a)
              THEN /\ last'.ret = FALSE
                   /\ accounts' = accounts
                   /\ stateObjects' = stateObjects
              ELSE /\ last'.ret = TRUE
                   /\ GetBalance(D', a) = 0
                   /\ HasSuicided(D', a)
                   /\ Exist(D', a)
    /\ \A a \in Addresses :
          (HasSuicided(D, a) /\ last'.op \notin ends) => Exist(D', a)

C6_SuicidedRemoved ==
    [][\A a \in Addresses :
          (/\ HasSuicided(D, a)
           /\ last'.op \in {"Finalise", "Commit"}
           /\ IF last'.op = "Finalise" THEN last'.ret = None
                                       ELSE last'.ret.err = None)
          => (~HasAccount(D', a) /\ ~Exist(D', a))]_vars

\* dirty at a call of Commit: in the dirty set or dirtied by a journal entry
IsDirty(d, a) ==
    a \in d.stateObjectsDirty \/ \E i \in 1 .. Len(dirties(d)) : dirties(d)[i] = a

\* a successful Commit(deleteEmpty) is the step
Committed(deleteEmpty) ==
    /\ last'.op = "Commit"
    /\ last'.args[1] = deleteEmpty
    /\ last'.ret.err = None

C8_DeletedIsTerminal ==
    [][\A a \in Addresses :
          (/\ Has(D, a)
           /\ Obj(D, a).deleted
           /\ ~HasAccount(D, a)
           /\ last'.op \in {"Finalise", "Commit"})
          => ~HasAccount(D', a)]_vars

\* C9: SubRefund(g) with g above the counter panics and leaves the counter;
\* otherwise the counter afterwards plus g is the counter before, with no
\* wrap-around
C9_SubRefund ==
    [][last'.op = "SubRefund"
       => LET g == last'.args[1]
          IN  IF U64Gt(g, GetRefund(D))
              THEN last'.trap /\ GetRefund(D') = GetRefund(D)
              ELSE /\ ~last'.trap
                   /\ U64Add(GetRefund(D'), g) = GetRefund(D)
                   /\ ~U64Gt(GetRefund(D'), GetRefund(D))]_vars

\* C9 happens: SubRefund panicked on a counter that was not zero
C9_Witness ==
    /\ Trapped("SubRefund")
    /\ GetRefund(D) # U64(0)

\* C10: SlotInAccessList(a, s) is (AddressInAccessList(a), slot present) and
\* never (false, true); a slot only becomes present by AddSlotToAccessList(a, s),
\* which makes address and slot present; AddAddressToAccessList(a) on an absent
\* address gives (true, false) for every slot
C10_SlotInAccessList ==
    [][/\ \A a \in Addresses, s \in Slots :
            /\ SlotInAccessList(D', a, s)[1] = AddressInAccessList(D', a)
            /\ SlotInAccessList(D', a, s) # <<FALSE, TRUE>>
            /\ (SlotInAccessList(D', a, s)[2] /\ ~SlotInAccessList(D, a, s)[2])
                  => (last'.op = "AddSlotToAccessList" /\ last'.args = <<a, s>>)
       /\ last'.op = "AddSlotToAccessList"
             => /\ AddressInAccessList(D', last'.args[1])
                /\ SlotInAccessList(D', last'.args[1], last'.args[2]) = <<TRUE, TRUE>>
       /\ (last'.op = "AddAddressToAccessList"
             /\ ~AddressInAccessList(D, last'.args[1]))
             => \A s \in Slots :
                   SlotInAccessList(D', last'.args[1], s) = <<TRUE, FALSE>>]_vars

\* C10 happens: AddSlotToAccessList on an absent address added the address and
\* the slot, while another address is present without the slot
C10_Witness ==
    /\ Did("AddSlotToAccessList")
    /\ Len(journal) >= 2
    /\ journal[Len(journal) - 1].kind = "accessListAddAccount"
    /\ journal[Len(journal)].kind = "accessListAddSlot"
    /\ \E a \in Addresses : SlotInAccessList(D, a, "s1") = <<TRUE, FALSE>>

\* a successful RevertToSnapshot to a snapshot at which `present' did not hold
RevertedBefore(present(_)) ==
    /\ last'.op = "RevertToSnapshot"
    /\ ~last'.trap
    /\ last'.args[1] \in DOMAIN snapView
    /\ ~present(snapView[last'.args[1]].view)

\* C11: after AddAddressToAccessList(a) / AddSlotToAccessList(a, s) the address
\* (the address and the slot) is present; an entry of the access list only
\* leaves it by a Reset or by a RevertToSnapshot to a snapshot taken while the
\* entry was absent; an add of a present entry appends no journal entry
C11_AccessListMonotone ==
    [][/\ last'.op = "AddAddressToAccessList"
            => /\ AddressInAccessList(D', last'.args[1])
               /\ AddressInAccessList(D, last'.args[1]) => journal' = journal
       /\ last'.op = "AddSlotToAccessList"
            => /\ SlotInAccessList(D', last'.args[1], last'.args[2]) = <<TRUE, TRUE>>
               /\ SlotInAccessList(D, last'.args[1], last'.args[2]) = <<TRUE, TRUE>>
                     => journal' = journal
       /\ \A a \in Addresses :
            /\ (AddressInAccessList(D, a) /\ ~AddressInAccessList(D', a))
                  => \/ last'.op = "Reset"
                     \/ RevertedBefore(LAMBDA v : v.accessList[a].present)
            /\ \A s \in Slots :
                  (SlotInAccessList(D, a, s)[2] /\ ~SlotInAccessList(D', a, s)[2])
                  => \/ last'.op = "Reset"
                     \/ RevertedBefore(LAMBDA v : v.accessList[a].slots[s][2])]_vars

\* C11 happens: an address that was added before the latest snapshot was added
\* again after it, and the journal is as long as it was at the snapshot
C11_Witness ==
    /\ Did("AddAddressToAccessList")
    /\ validRevisions # <<>>
    /\ journal # <<>>
    /\ validRevisions[Len(validRevisions)].journalIndex = Len(journal)
    /\ journal[Len(journal)].kind = "accessListAddAccount"
    /\ journal[Len(journal)].address = last.args[1]

\* each hash of the preimage sequence occurs once, and the index map holds
\* exactly the position of each hash
PreimagesIndexed(d) ==
    /\ \A i, j \in 1 .. Len(d.preimages) :
          d.preimages[i].hash = d.preimages[j].hash => i = j
    /\ DOMAIN d.hashToPreimageIndex =
          {d.preimages[i].hash : i \in 1 .. Len(d.preimages)}
    /\ \A h \in DOMAIN d.hashToPreimageIndex :
          /\ d.hashToPreimageIndex[h] \in 0 .. Len(d.preimages) - 1
          /\ d.preimages[d.hashToPreimageIndex[h] + 1].hash = h

\* C12: AddPreimage(h, y) on a hash that already has a preimage changes
\* nothing, the journal included, so Preimages()[h] stays the first preimage;
\* on a new hash it makes Preimages()[h] = y and appends one journal entry; in
\* every state each hash occurs once in the preimage sequence and the index
\* map points at its entry
C12_AddPreimageOnce ==
    [][/\ last'.op = "AddPreimage"
            => LET h == last'.args[1]
                   y == last'.args[2]
               IN  IF h \in DOMAIN Preimages(D)
                   THEN /\ D' = D
                        /\ Preimages(D')[h] = Preimages(D)[h]
                   ELSE /\ Preimages(D') = Put(Preimages(D), h, y)
                        /\ Len(journal') = Len(journal) + 1
       /\ PreimagesIndexed(D')]_vars

\* C12 happens: AddPreimage(h, y) returned while Preimages()[h] is another
\* byte string, that of an earlier AddPreimage(h, x)
C12_Witness ==
    /\ Did("AddPreimage")
    /\ last.args[1] \in DOMAIN Preimages(D)
    /\ Preimages(D)[last.args[1]] # last.args[2]
    /\ Len(preimages) = 2

\* the last element of a non-empty sequence
Last(q) == q[Len(q)]

\* AddLog appends one log, stamped with the overlay's tx hash, block hash and
\* tx index and with log_size as its index, and adds one to log_size; two
\* AddLog in a row give consecutive indices
C13_AddLogAppends ==
    /\ last'.op = "AddLog"
          => /\ Len(GetLogs(D', thash')) = Len(GetLogs(D, thash)) + 1
             /\ SubSeq(GetLogs(D', thash'), 1, Len(GetLogs(D, thash)))
                    = GetLogs(D, thash)
             /\ Last(GetLogs(D', thash')) =
                    [payload |-> last'.args[1], TxHash |-> thash, BlockHash |-> BlockHash(D),
                     TxIndex |-> U64(TxIndex(D)), Index |-> logSize]
             /\ logSize' = logSize + 1
    /\ (last.op = "AddLog" /\ last'.op = "AddLog")
          => Last(logs').Index = Last(logs).Index + 1

\* C13 as stated: the tx hash, the block hash and the tx index the logs are
\* stamped with are those of the most recent Prepare, that is, Prepare sets
\* them and after a Prepare no other call changes them
C13_AddLogStampsPrepared ==
    [][/\ C13_AddLogAppends
       /\ IF last'.op = "Prepare"
          THEN <<thash', bhash', txIndex'>> = last'.args
          ELSE thash \in TxHashes
                  => <<thash', bhash', txIndex'>> = <<thash, bhash, txIndex>>]_vars

\* C13: the same, where the three are those of the most recent Prepare unless
\* a SetBlockHash has replaced the block hash or a Reset has zeroed the three
C13_AddLogStampsCurrent ==
    [][/\ C13_AddLogAppends
       /\ CASE last'.op = "Prepare" -> <<thash', bhash', txIndex'>> = last'.args
            [] last'.op = "SetBlockHash" ->
                  <<thash', bhash', txIndex'>> = <<thash, last'.args[1], txIndex>>
            [] last'.op = "Reset" -> <<thash', bhash', txIndex'>> = <<ZeroHash, ZeroHash, 0>>
            [] OTHER -> <<thash', bhash', txIndex'>> = <<thash, bhash, txIndex>>]_vars

\* C13 happens: the second of two logs was added after a Prepare and a
\* SetBlockHash, with index 1 and the block hash of the SetBlockHash
C13_Witness ==
    /\ Did("AddLog")
    /\ Len(logs) = 2
    /\ logs[2].Index = 1
    /\ logs[2].TxHash \in TxHashes
    /\ logs[2].BlockHash \in NewBlockHashes
    /\ logs[2].TxIndex = U64(1)

\* after a Reset: no live object, no dirty address, no preimage, an empty
\* access list, no cached params, zeroed transaction metadata, and the
\* external stores as they were
ResetDrops ==
    /\ stateObjects' = <<>>
    /\ addressToObjectIndex' = EmptyMap
    /\ stateObjectsDirty' = {}
    /\ preimages' = <<>>
    /\ Preimages(D') = EmptyMap
    /\ \A a \in Addresses : ~AddressInAccessList(D', a)
    /\ params' = None
    /\ <<thash', bhash', TxIndex(D'), logSize'>> = <<ZeroHash, ZeroHash, 0, 0>>
    /\ <<accounts', kvCode', kvStorage'>> = <<accounts, kvCode, kvStorage>>

\* C14 as stated: Reset drops the live set, the dirty set, the logs, the
\* preimages, the access list, the params cache and the transaction metadata,
\* and leaves the external account store as it was
C14_ResetDropsAll ==
    [][last'.op = "Reset" => (ResetDrops /\ GetLogs(D', thash') = <<>>)]_vars

\* C14: the same without the logs, which Reset leaves as they were
C14_ResetDropsButLogs ==
    [][last'.op = "Reset" => (ResetDrops /\ GetLogs(D', thash') = GetLogs(D, thash))]_vars

\* C14 happens: a Reset returned on an overlay that holds a log, over a store
\* that holds the nonce a Finalise wrote before
C14_Witness ==
    /\ Did("Reset")
    /\ logs # <<>>
    /\ accounts["a1"].nonce = 1

\* C15: Reset leaves the logs of the overlay, added by AddLog or installed by
\* SetLogs, as they were: GetLogs returns after the Reset what it returned
\* before, for every hash
C15_LogsSurviveReset ==
    [][last'.op = "Reset"
       => \A h \in TxHashes \cup {ZeroHash} :
             GetLogs(D', h) = GetLogs(D, h)]_vars

\* C15 happens: a Reset returned on an overlay that holds a log installed by
\* SetLogs and a log added by AddLog
C15_Witness ==
    /\ Did("Reset")
    /\ Len(GetLogs(D, ZeroHash)) = 2
    /\ GetLogs(D, ZeroHash)[1].payload = "l2"
    /\ GetLogs(D, ZeroHash)[2].payload = "l1"

\* the mutations of the overlay
OverlayMutations ==
    {"SetBalance", "AddBalance", "SubBalance", "SetNonce", "SetCode", "SetState",
     "CreateAccount", "Suicide", "AddLog", "AddPreimage", "AddRefund", "SubRefund",
     "AddAddressToAccessList", "AddSlotToAccessList", "Snapshot", "RevertToSnapshot"}

\* C16: a mutation of the overlay, a ClearStateObjects or a Reset leaves the
\* account records, the storage slots and the code of the external stores as
\* they were; after a ClearStateObjects or a Reset an address exists exactly
\* when the store holds its account, so an account that only the overlay
\* created does not exist, and what is read of the others is what the store
\* holds
C16_DiscardLeavesStores ==
    [][/\ last'.op \in OverlayMutations \cup {"ClearStateObjects", "Reset"}
            => <<accounts', kvCode', kvStorage'>> = <<accounts, kvCode, kvStorage>>
       /\ last'.op \in {"ClearStateObjects", "Reset"}
            => \A a \in Addresses :
                  /\ Exist(D', a) = HasAccount(D', a)
                  /\ HasAccount(D', a)
                        => /\ GetBalance(D', a) = BigInt(accounts[a].balance)
                           /\ GetNonce(D', a) = accounts[a].nonce
                           /\ GetCodeHash(D', a) = accounts[a].codeHash
                           /\ \A k \in Keys : GetState(D', a, k) = StoreValue(D, a, k)]_vars

\* C16 happens: a ClearStateObjects discarded an overlay in which a2 was
\* created and the storage slot of a1 was overwritten; a2 does not exist and
\* the slot reads as the store holds it
C16_Witness ==
    /\ Did("ClearStateObjects")
    /\ \E i \in 1 .. Len(journal) :
          journal[i].kind = "createObject" /\ journal[i].account = "a2"
    /\ \E i \in 1 .. Len(journal) :
          journal[i].kind = "storage" /\ journal[i].account = "a1"
    /\ ~Exist(D, "a2")
    /\ GetState(D, "a1", "k1") = "v1"

\* C17: after CreateAccount(a) the address exists and GetBalance(a) is what it
\* was before the call: the balance of the object that resolved for a, and 0
\* when none did
C17_CreateAccountKeepsBalance ==
    [][last'.op = "CreateAccount"
       => LET a == last'.args[1]
          IN  /\ Exist(D', a)
              /\ GetBalance(D', a) = GetBalance(D, a)
              /\ ~Exist(D, a) => GetBalance(D', a) = 0]_vars

\* C17 happens: CreateAccount replaced an object that held a balance, and the
\* new object holds it
C17_Witness ==
    /\ Did("CreateAccount")
    /\ journal # <<>>
    /\ Last(journal).kind = "resetObject"
    /\ Balance(Last(journal).prev) > 0
    /\ GetBalance(D, last.args[1]) = Balance(Last(journal).prev)

ZeroOf(getter) ==
    CASE getter \in {"GetBalance", "GetNonce", "GetCodeSize"} -> 0
      [] getter = "GetCode" -> <<>>
      [] getter = "GetCodeHash" -> ZeroCodeHash
      [] getter \in {"GetState", "GetCommittedState"} -> ZeroHash

\* C19: a getter on an address with no object in the live set and no account
\* in the store returns its zero value, leaves the live set without the
\* address and Error() non-nil; once Error() is non-nil no call changes it
C19_ReadOfAbsent ==
    [][/\ (/\ last'.op \in Getters \cup {"GetBalance"}
            /\ ~Has(D, last'.args[1])
            /\ ~HasAccount(D, last'.args[1]))
          => /\ ~last'.trap
             /\ last'.ret = ZeroOf(last'.op)
             /\ ~Has(D', last'.args[1])
             /\ stateObjects' = stateObjects
             /\ Error(D') # None
       /\ Error(D) # None => Error(D') = Error(D)]_vars

\* C19 happens: a getter returned for an address that has neither an object
\* nor an account, while Error() is the error of an earlier read of another
\* address
C19_Witness ==
    /\ last.op \in Getters \cup {"GetBalance"}
    /\ ~Has(D, last.args[1])
    /\ ~HasAccount(D, last.args[1])
    /\ Error(D) # None
    /\ Error(D)[1][2] # last.args[1]

\* C20: a Commit that is called while Error() is non-nil returns a non-nil
\* error
C20_CommitSurfacesError ==
    [][(last'.op = "Commit" /\ Error(D) # None) => last'.ret.err # None]_vars

\* C21: a Finalise or a Commit that meets a blacklisted dirty address with a
\* live object returns an error and writes nothing about the address: its
\* account record, its storage slots and the code of its object are in the
\* stores as they were
C21_BlacklistedNotWritten ==
    [][\A a \in blacklist :
          (/\ last'.op \in {"Finalise", "Commit"}
           /\ IsDirty(D, a)
           /\ Has(D, a)
           /\ ~Obj(D, a).deleted)
          => /\ IF last'.op = "Finalise" THEN last'.ret # None
                                         ELSE last'.ret.err # None
             /\ HasAccount(D', a) = HasAccount(D, a)
             /\ HasAccount(D, a) => accounts'[a] = accounts[a]
             /\ \A k \in Keys : StoreValue(D', a, k) = StoreValue(D, a, k)
             /\ CodeHash(Obj(D, a)) \in DOMAIN kvCode'
                   => CodeHash(Obj(D, a)) \in DOMAIN kvCode]_vars


\* a store whose account for a1 holds two coins
InitRound ==
    StartOver(MaxCalls,
              "a1" :> [NewAccountWithAddress EXCEPT
                          !.balance = NewDecFromBigIntWithPrec(2, Precision)],
              EmptyMap, EmptyMap)

\* balances written by Commit and read back from the store
NextRound ==
    \/ SetBalanceAct
    \/ GetBalanceAct
    \/ CommitAct
    \/ ClearStateObjectsAct

SpecRound == InitRound /\ [][NextRound]_vars

C23_CommitDoesFinalise ==
    [][(last'.op = "Commit" /\ last'.ret.err = None)
       => /\ \A a \in Addresses, k \in Keys :
                (/\ Has(D, a)
                 /\ IsDirty(D, a)
                 /\ ~Obj(D, a).suicided
                 /\ ~(last'.args[1] /\ empty(Obj(D, a)))
                 /\ DirtyIndex(Obj(D, a), k) # 0)
                => StoreValue(D', a, k)
                      = Obj(D, a).dirtyStorage[DirtyIndex(Obj(D, a), k)].value
          /\ journal' = <<>>
          /\ validRevisions' = <<>>
          /\ refund' = U64(0)
          /\ logs' = <<>>
          /\ \A a \in Addresses :
                (/\ Has(D, a)
                 /\ IsDirty(D, a)
                 /\ ~Obj(D, a).suicided
                 /\ ~(last'.args[1] /\ empty(Obj(D, a)))
                 /\ Obj(D, a).dirtyCode)
                => /\ CodeHash(Obj(D, a)) \in DOMAIN kvCode'
                   /\ kvCode'[CodeHash(Obj(D, a))] = Bytes(Obj(D, a).code)
                   /\ ~Obj(D', a).dirtyCode]_vars


\* the address is marked dirty by an entry of the journal
Dirtied(j, a) == \E i \in 1 .. Len(j) : dirtied(j[i]) = Some(a)

\* the position of the first entry of the journal that marks the address dirty
FirstDirtied(j, a) ==
    CHOOSE i \in 1 .. Len(j) :
        /\ dirtied(j[i]) = Some(a)
        /\ \A k \in 1 .. (i - 1) : dirtied(j[k]) # Some(a)

\* C24: the writes and removals a Finalise makes in the account store are of
\* addresses the journal marks dirty, each address once, in the order of their
\* first entries in the journal; those of a Commit are of live addresses, in
\* the order of the live set
C24_WriteOrder ==
    [][LET w == last'.written
       IN  /\ last'.op = "Finalise"
              => /\ \A i \in 1 .. Len(w) : Dirtied(journal, w[i].address)
                 /\ \A i, j \in 1 .. Len(w) :
                       i < j => FirstDirtied(journal, w[i].address)
                                   < FirstDirtied(journal, w[j].address)
           /\ last'.op = "Commit"
              => /\ \A i \in 1 .. Len(w) : Has(D, w[i].address)
                 /\ \A i, j \in 1 .. Len(w) :
                       i < j => addressToObjectIndex[w[i].address]
                                   < addressToObjectIndex[w[j].address]]_vars

\* a Finalise has removed a2 and then written a1, the order of the journal,
\* while a1 is before a2 in the live set
C24_Witness ==
    /\ Did("Finalise")
    /\ last.written = <<[op |-> "RemoveAccount", address |-> "a2"],
                        [op |-> "SetAccount", address |-> "a1"]>>
    /\ Has(D, "a1")
    /\ Has(D, "a2")
    /\ addressToObjectIndex["a1"] < addressToObjectIndex["a2"]


\* SetState(a, k, v) is the step: GetState(a, k) is v afterwards, and
\* GetCommittedState(a, k) is what it was when present(a) held before
SetStateKeepsCommitted(present(_)) ==
    (last'.op = "SetState" /\ ~last'.trap)
    => /\ GetState(D', last'.args[1], last'.args[2]) = last'.args[3]
       /\ present(last'.args[1])
          => GetCommittedState(D', last'.args[1], last'.args[2])
                = GetCommittedState(D, last'.args[1], last'.args[2])

\* a successful Finalise(false) right after a SetState(a, k, v) for which
\* pending(a) held is the step: both reads of the slot are v afterwards
FinaliseCommitsState(pending(_)) ==
    (/\ last.op = "SetState"
     /\ pending(last.args[1])
     /\ last'.op = "Finalise"
     /\ last'.args[1] = FALSE
     /\ last'.ret = None)
    => /\ GetCommittedState(D', last.args[1], last.args[2]) = last.args[3]
       /\ GetState(D', last.args[1], last.args[2]) = last.args[3]

Always(a) == TRUE

Resolves(a) == getStateObject(D, a).found

\* the live object of the address is not suicided and the journal marks it dirty
PendingWrite(a) == Has(D, a) /\ ~Obj(D, a).suicided /\ Dirtied(journal, a)

---------------------------------------------------------------------------
(* ForEachStorage (statedb.go:783-814)                                     *)

\* the storage keys a store can hold, in the order of the store's iterator
StoreKeys == <<"k1", "k2">>

\* the callbacks given to ForEachStorage: cb(key, value) returns true on the
\* keys of the set
Callbacks == SUBSET {StoreKeys[i] : i \in 1 .. Len(StoreKeys)}

\* fault injection: the stored value is passed for every key
cbValueStored(d, so, key) == d.kvStorage[<<so.address, key>>]

\* the value ForEachStorage passes to cb for a key of the store: the pending
\* one when the key is in the dirty storage
cbValue(d, so, key) ==
    IF DirtyIndex(so, key) # 0 THEN so.dirtyStorage[DirtyIndex(so, key)].value
    ELSE d.kvStorage[<<so.address, key>>]

\* the loop over the prefix iterator, from the i-th key: the invocations of cb
RECURSIVE ForEachLoop(_, _, _, _)
ForEachLoop(d, so, cb, i) ==
    IF i > Len(StoreKeys) THEN <<>>
    ELSE IF <<so.address, StoreKeys[i]>> \notin DOMAIN d.kvStorage
    THEN ForEachLoop(d, so, cb, i + 1)
    ELSE LET call == [key |-> StoreKeys[i], value |-> cbValue(d, so, StoreKeys[i])]
         IN  IF call.key \in cb THEN <<call>>
             ELSE <<call>> \o ForEachLoop(d, so, cb, i + 1)

\* csdb.ForEachStorage: the invocations of cb and the returned error
ForEachStorage(d, addr, cb) ==
    LET r == getStateObject(d, addr)
    IN  IF ~r.found THEN Ret(r.d, [calls |-> <<>>, err |-> None])
        ELSE Ret(r.d, [calls |-> ForEachLoop(r.d, Obj(r.d, addr), cb, 1),
                       err |-> None])

ForEachStorageAct ==
    \E a \in Addresses, cb \in Callbacks :
        Call("ForEachStorage", <<a, cb>>, ForEachStorage(D, a, cb))

\* a store in which the contract a1 has two storage slots
InitEach ==
    StartOver(MaxCalls,
              "a1" :> [balance |-> ZeroDec, nonce |-> 1, codeHash |-> Keccak256(<<1>>)],
              Keccak256(<<1>>) :> <<1>>,
              (<<"a1", "k1">> :> "v1") @@ (<<"a1", "k2">> :> "v2"))

\* iteration over the storage of a contract with pending writes
NextEach ==
    \/ ForEachStorageAct
    \/ SetStateAct
    \/ SuicideAct
    \/ FinaliseAct
    \/ ClearStateObjectsAct

SpecEach == InitEach /\ [][NextEach]_vars

\* the position of a key in the order of the store's iterator
KeyPosition(key) == CHOOSE i \in 1 .. Len(StoreKeys) : StoreKeys[i] = key

\* C26: ForEachStorage(a, cb) returns nil; for an address without an object
\* it makes no invocation; otherwise it invokes cb on keys the store holds for
\* a, in the order of the store and so once per key, with the pending value of
\* a key that has one and the stored value of the others, on every key up to
\* the first on which cb returns true and on none after it
C26_ForEachStorage ==
    [][last'.op = "ForEachStorage"
       => LET a == last'.args[1]
              cb == last'.args[2]
              calls == last'.ret.calls
              r == getStateObject(D, a)
              so == Obj(r.d, a)
              stored(key) == <<a, key>> \in DOMAIN kvStorage
          IN  /\ last'.ret.err = None
              /\ ~r.found => calls = <<>>
              /\ r.found
                 => /\ \A i \in 1 .. Len(calls) :
                          /\ stored(calls[i].key)
                          /\ calls[i].value
                                = IF DirtyIndex(so, calls[i].key) # 0
                                  THEN GetState(D, a, calls[i].key)
                                  ELSE kvStorage[<<a, calls[i].key>>]
                          /\ i < Len(calls) => calls[i].key \notin cb
                    /\ \A i, j \in 1 .. Len(calls) :
                          i < j => KeyPosition(calls[i].key) < KeyPosition(calls[j].key)
                    /\ \A n \in 1 .. Len(StoreKeys) :
                          stored(StoreKeys[n])
                          => \/ \E i \in 1 .. Len(calls) : calls[i].key = StoreKeys[n]
                             \/ \E i \in 1 .. Len(calls) :
                                   /\ calls[i].key \in cb
                                   /\ KeyPosition(calls[i].key) < n]_vars

\* cb was invoked on k1 with the pending value and on k2 with the stored one
C26_Witness ==
    /\ Did("ForEachStorage")
    /\ last.args = <<"a1", {"k2"}>>
    /\ last.ret.calls = <<[key |-> "k1", value |-> ZeroHash],
                          [key |-> "k2", value |-> "v2"]>>
    /\ kvStorage[<<"a1", "k1">>] = "v1"


\* SetCode(a, c) is the step: the three getters return c, its length and its hash
SetCodeReads ==
    (last'.op = "SetCode" /\ ~last'.trap)
    => /\ GetCode(D', last'.args[1]) = Bytes(last'.args[2])
       /\ GetCodeSize(D', last'.args[1]) = Len(Bytes(last'.args[2]))
       /\ GetCodeHash(D', last'.args[1]) = Keccak256(Bytes(last'.args[2]))

\* the object of the address holds code set by a SetCode that no Commit has
\* seen yet: dirty_code is set and the address is dirty
CodePending(a) == Has(D, a) /\ Obj(D, a).dirtyCode /\ IsDirty(D, a)

\* a successful Commit(false) is the step: for the addresses with pending(a)
\* the account record carries the code hash, the code store maps the hash to
\* the code, and dirty_code is cleared
CodeCommitted(pending(_)) ==
    (last'.op = "Commit" /\ last'.args[1] = FALSE /\ last'.ret.err = None)
    => \A a \in Addresses :
          pending(a)
          => /\ HasAccount(D', a)
             /\ accounts'[a].codeHash = Keccak256(Bytes(Obj(D, a).code))
             /\ accounts'[a].codeHash \in DOMAIN kvCode'
             /\ kvCode'[accounts'[a].codeHash] = Bytes(Obj(D, a).code)
             /\ ~Obj(D', a).dirtyCode

LiveCodePending(a) ==
    CodePending(a) /\ Obj(D, a).code # None /\ ~Obj(D, a).suicided

\* a successful Commit(false) is the step: a pending nil code is not written
\* and its dirty_code stays set, and a suicided object with pending code loses
\* its account and has no code written (the code store gets its hash only
\* when another object commits the same code)
CodeSkipped ==
    (last'.op = "Commit" /\ last'.args[1] = FALSE /\ last'.ret.err = None)
    => \A a \in Addresses :
          (CodePending(a) /\ ~LiveCodePending(a))
          => /\ CodeHash(Obj(D, a)) \in DOMAIN kvCode'
                   => \/ CodeHash(Obj(D, a)) \in DOMAIN kvCode
                      \/ \E b \in Addresses :
                            /\ LiveCodePending(b)
                            /\ CodeHash(Obj(D, b)) = CodeHash(Obj(D, a))
             /\ Obj(D', a).dirtyCode
             /\ HasAccount(D', a) = ~Obj(D, a).suicided

ClearStateObjectsKeeps ==
    /\ stateObjects' = <<>>
    /\ addressToObjectIndex' = EmptyMap
    /\ UNCHANGED <<accounts, kvCode, kvStorage, blacklist, journal, validRevisions,
                   nextRevisionID, refund, logs, logSize, preimages,
                   hashToPreimageIndex, accessList, params, dbErr, thash, bhash,
                   txIndex>>

\* C28 as stated: ClearStateObjects empties the live set and leaves the rest
\* of the overlay unchanged, the dirty set included
C28_ClearDropsLiveSetOnly ==
    [][last'.op = "ClearStateObjects"
       => ClearStateObjectsKeeps /\ stateObjectsDirty' = stateObjectsDirty]_vars

\* C28: ClearStateObjects empties the live set and the dirty set and leaves
\* the rest of the overlay unchanged
C28_ClearDropsLiveAndDirtySet ==
    [][last'.op = "ClearStateObjects"
       => ClearStateObjectsKeeps /\ stateObjectsDirty' = {}]_vars

\* a ClearStateObjects after a Finalise that wrote the nonce of a1, with a
\* journal entry, a snapshot and an access list entry made since
C28_Witness ==
    /\ Did("ClearStateObjects")
    /\ stateObjects = <<>>
    /\ stateObjectsDirty = {}
    /\ accounts["a1"].nonce = 1
    /\ journal # <<>>
    /\ validRevisions # <<>>
    /\ accessList # newAccessList


---------------------------------------------------------------------------
(* UpdateAccounts (statedb.go:720-739)                                     *)

\* x != y on two *big.Int: the comparison of the pointers.  Balance() and
\* Dec.BigInt() each return a number allocated by the call, so the pointers
\* differ whatever the numbers are
BigIntPointersDiffer(x, y) == TRUE

\* the loop of UpdateAccounts over csdb.stateObjects, from the i-th entry
RECURSIVE UpdateAccountsLoop(_, _)
UpdateAccountsLoop(d, i) ==
    IF i > Len(d.stateObjects) THEN d
    ELSE LET addr == d.stateObjects[i].address
             so == d.stateObjects[i].stateObject
         IN  IF ~HasAccount(d, addr) THEN UpdateAccountsLoop(d, i + 1)
             ELSE LET p == GetParams(d)
                      ethermintAcc == p.accounts[addr]
                      balance == ethermintAcc.balance
                  IN  IF \/ /\ BigIntPointersDiffer(Balance(so), BigInt(balance))
                            /\ IsValid(balance)
                         \/ Nonce(so) # ethermintAcc.nonce
                      THEN UpdateAccountsLoop(
                               [p EXCEPT !.stateObjects[i].stateObject.account
                                            = ethermintAcc], i + 1)
                      ELSE UpdateAccountsLoop(p, i + 1)

\* csdb.UpdateAccounts
UpdateAccounts(d) == Ret(UpdateAccountsLoop(d, 1), None)

UpdateAccountsAct == Call("UpdateAccounts", <<>>, UpdateAccounts(D))

\* cached objects that differ from the account store, and their reconciliation
NextUpdate ==
    \/ UpdateAccountsAct
    \/ SetBalanceAct
    \/ SetNonceAct
    \/ SetCodeAct
    \/ SuicideAct
    \/ FinaliseAct
    \/ ReadAct

SpecUpdate == Init /\ [][NextUpdate]_vars

\* the balance and the nonce of the object are those of the account record
Agrees(so, acc) == Balance(so) = BigInt(acc.balance) /\ Nonce(so) = acc.nonce

\* C29: after UpdateAccounts every live object whose address has an account
\* in the store reports the balance and the sequence of that account, an
\* object that agreed with the store before is as it was, an object whose
\* address has no account is as it was, and the journal is as it was
C29_UpdateAccountsReconciles ==
    [][last'.op = "UpdateAccounts"
       => /\ journal' = journal
          /\ Len(stateObjects') = Len(stateObjects)
          /\ \A i \in 1 .. Len(stateObjects) :
                LET a == stateObjects[i].address
                    so == stateObjects[i].stateObject
                IN  /\ HasAccount(D, a)
                       => /\ GetBalance(D', a) = BigInt(accounts[a].balance)
                          /\ GetNonce(D', a) = accounts[a].nonce
                    /\ (HasAccount(D, a) /\ Agrees(so, accounts[a]))
                       => stateObjects'[i] = stateObjects[i]
                    /\ ~HasAccount(D, a) => stateObjects'[i] = stateObjects[i]]_vars


---------------------------------------------------------------------------
(* Height hashes (statedb.go:164-168, 325-334)                             *)

\* the heights and the hashes given to SetHeightHash
Heights == {U64(1), U64(LimbBase)}
HeightHashes == {"b1", "b2"}

\* fault injection: one key for every height
HeightHashKeyShared(height) == <<0, 0, 0, 0>>

\* HeightHashKey (key.go): the height in big-endian order, most significant limb
\* first
HeightHashKey(height) == [i \in 1 .. 4 |-> height[5 - i]]

\* csdb.SetHeightHash
SetHeightHash(d, height, hash) ==
    Ret([d EXCEPT !.kvHeightHash = Put(@, HeightHashKey(height), hash)], None)

\* csdb.GetHeightHash: the stored hash, the zero hash when the store has none
GetHeightHash(d, height) ==
    IF HeightHashKey(height) \in DOMAIN d.kvHeightHash
    THEN d.kvHeightHash[HeightHashKey(height)]
    ELSE ZeroHash

SetHeightHashAct ==
    \E h \in Heights, x \in HeightHashes :
        Call("SetHeightHash", <<h, x>>, SetHeightHash(D, h, x))

GetHeightHashAct ==
    \E h \in Heights : Call("GetHeightHash", <<h>>, Ret(D, GetHeightHash(D, h)))

\* height hashes next to journalled changes, snapshots and persistence
NextHeight ==
    \/ SetHeightHashAct
    \/ GetHeightHashAct
    \/ SetNonceAct
    \/ SnapshotAct
    \/ RevertToSnapshotAct
    \/ FinaliseAct
    \/ CommitAct
    \/ ResetAct
    \/ ClearStateObjectsAct

SpecHeight == Init /\ [][NextHeight]_vars

\* C30: GetHeightHash is the zero hash for every height before the first call;
\* SetHeightHash(h, x) makes it x for h and leaves it for every other height;
\* every other call, RevertToSnapshot, Finalise, Commit, Reset and
\* ClearStateObjects among them, leaves it for every height; and a call of
\* GetHeightHash(h) returns it
C30_HeightHashOutsideJournal ==
    [][/\ last.op = "new" => \A h \in Heights : GetHeightHash(D, h) = ZeroHash
       /\ last'.op = "SetHeightHash"
          => /\ GetHeightHash(D', last'.args[1]) = last'.args[2]
             /\ \A h \in Heights \ {last'.args[1]} :
                   GetHeightHash(D', h) = GetHeightHash(D, h)
       /\ last'.op # "SetHeightHash"
          => \A h \in Heights : GetHeightHash(D', h) = GetHeightHash(D, h)
       /\ last'.op = "GetHeightHash"
          => last'.ret = GetHeightHash(D, last'.args[1])]_vars

\* a Reset, after a nonce was written to the store, has left the hash of
\* one height in place and the other height without one
C30_Witness ==
    /\ Did("Reset")
    /\ accounts["a1"].nonce = 1
    /\ GetHeightHash(D, U64(LimbBase)) = "b1"
    /\ GetHeightHash(D, U64(1)) = ZeroHash


---------------------------------------------------------------------------
(* Root hashes                                                             *)

IntermediateRootAct ==
    \E del \in BOOLEAN :
        Call("IntermediateRoot", <<del>>, IntermediateRoot(D, del))

\* amounts given to SetBalance, a negative one among them
SignedAmounts == {0 - 1, 1}

SetBalanceSignedAct ==
    \E a \in Addresses, x \in SignedAmounts :
        Call("SetBalance", <<a, x>>, SetBalance(D, a, x))

\* the calls that return a root hash, after writes that succeed and that fail
NextRoot ==
    \/ SetNonceAct
    \/ SetBalanceSignedAct
    \/ SuicideAct
    \/ CommitAct
    \/ IntermediateRootAct
    \/ ClearStateObjectsAct

SpecRoot == Init /\ [][NextRoot]_vars

\* C31: the hash that Commit and IntermediateRoot return is the zero hash,
\* with and without an error, for both values of deleteEmptyObjects
C31_RootIsZero ==
    [][last'.op \in {"Commit", "IntermediateRoot"}
       => last'.ret.hash = ZeroHash]_vars

\* an IntermediateRoot that wrote the account of one address and then failed
\* on another one
C31_Witness ==
    /\ Did("IntermediateRoot")
    /\ last.ret.err # None
    /\ last.written # <<>>
    /\ last.ret.hash = ZeroHash



\* C32: after a Commit that returns no error the dirty set is empty
C32_CommitEmptiesDirtySet ==
    [][(last'.op = "Commit" /\ last'.ret.err = None)
       => stateObjectsDirty' = {}]_vars



\* the step is a RevertToSnapshot that undoes the creation of the object of
\* the address: of the createObject and resetObject entries of the address
\* that it undoes, the earliest one is a createObject entry
CreationUndone(a) ==
    /\ last'.op = "RevertToSnapshot"
    /\ \E i \in 1 .. Len(journal) :
          /\ i > Len(journal')
          /\ journal[i].kind = "createObject"
          /\ journal[i].account = a
          /\ \A j \in 1 .. i - 1 :
                ~(/\ j > Len(journal')
                  /\ journal[j].kind \in {"createObject", "resetObject"}
                  /\ journal[j].account = a)

\* C33 as stated: an address of the live set stays in it through every call
\* but ClearStateObjects and Reset, RevertToSnapshot included
C33_LiveUntilCleared ==
    [][\A a \in Addresses :
          (Has(D, a) /\ last'.op \notin {"ClearStateObjects", "Reset"})
          => Has(D', a)]_vars

\* C33: an address of the live set leaves it by ClearStateObjects, by Reset
\* and by a RevertToSnapshot that undoes the creation of its object, and
\* stays in it through every other call
C33_LiveUntilClearedOrUncreated ==
    [][\A a \in Addresses :
          Has(D, a)
          => (Has(D', a) <=> ~(\/ last'.op \in {"ClearStateObjects", "Reset"}
                               \/ CreationUndone(a)))]_vars

\* after a RevertToSnapshot a1, loaded from the store before the snapshot, is
\* live with a journal entry left, and a2, which no store holds and which was
\* looked up, is not live
C33_Witness ==
    /\ Did("RevertToSnapshot")
    /\ Has(D, "a1")
    /\ ~Has(D, "a2")
    /\ journal # <<>>
    /\ dbErr = Some(<<"no account found for address", "a2">>)



\* C34: a Finalise or a Commit that returns an error has written nothing to
\* the stores: the account records, the storage slots and the code are as
\* they were before the call
C34_FailedWriteIsAtomic ==
    [][(\/ last'.op = "Finalise" /\ last'.ret # None
        \/ last'.op = "Commit" /\ last'.ret.err # None)
       => /\ accounts' = accounts
          /\ kvStorage' = kvStorage
          /\ kvCode' = kvCode]_vars



\* the account of the address has been removed: the store holds none and the
\* live set has no usable object for it
Removed(a) ==
    /\ ~HasAccount(D, a)
    /\ Has(D, a) => Obj(D, a).deleted

\* C35: the storage of a removed account is gone. Once a suicided object has
\* been removed by Finalise or Commit, GetState and GetCommittedState return
\* the zero hash for each of its keys; and so they do after every later call,
\* one that creates a new account at the address included, that is not a
\* SetState of that key
C35_StorageDiesWithAccount ==
    [][\A a \in Addresses, k \in Keys :
          /\ (/\ last'.op \in {"Finalise", "Commit"}
              /\ Has(D, a)
              /\ Obj(D, a).suicided
              /\ ~HasAccount(D', a))
             => /\ GetState(D', a, k) = ZeroHash
                /\ GetCommittedState(D', a, k) = ZeroHash
          /\ (/\ Removed(a)
              /\ ~(last'.op = "SetState" /\ last'.args[1] = a /\ last'.args[2] = k))
             => /\ GetState(D', a, k) = ZeroHash
                /\ GetCommittedState(D', a, k) = ZeroHash]_vars



\* C36: the address index and the sequence of live objects agree: no address
\* occurs twice in the sequence, the index maps an address to i exactly when
\* the entry at position i (counted from 0) has that address, and the index
\* has as many keys as the sequence has entries
C36_IndexAgrees ==
    /\ \A i, j \in 1 .. Len(stateObjects) :
          stateObjects[i].address = stateObjects[j].address => i = j
    /\ \A a \in Addresses, i \in 1 .. Len(stateObjects) :
          (a \in DOMAIN addressToObjectIndex /\ addressToObjectIndex[a] = i - 1)
          <=> stateObjects[i].address = a
    /\ \A a \in DOMAIN addressToObjectIndex :
          addressToObjectIndex[a] + 1 \in 1 .. Len(stateObjects)
    /\ Cardinality(DOMAIN addressToObjectIndex) = Len(stateObjects)

\* CreateAccount on the cached a1 has put the new object at the position of
\* the old one, before a2
C36_Witness ==
    /\ Did("CreateAccount")
    /\ last.args = <<"a1">>
    /\ Len(stateObjects) = 2
    /\ stateObjects[1].address = "a1"
    /\ stateObjects[2].address = "a2"
    /\ journal # <<>>
    /\ journal[Len(journal)].kind = "resetObject"



\* C37: AddRefund(g) never wraps around: the counter after the call is the
\* counter before it plus g as integers, which for 64-bit operands is the case
\* exactly when the 64-bit sum is not below the counter before the call; so
\* GetRefund never decreases across an AddRefund
C37_AddRefundNeverWraps ==
    [][last'.op = "AddRefund"
       => /\ GetRefund(D') = U64Add(GetRefund(D), last'.args[1])
          /\ ~U64Gt(GetRefund(D), GetRefund(D'))]_vars


---------------------------------------------------------------------------
(* The websocket PubSubAPI (pubsub_api.go)                                 *)

\* fault injection: a mutex that excludes nobody
LockAlways == TRUE

\* api.filtersMu.Lock() can return: no goroutine holds the mutex
Lock == filtersMu = <<>>

Sub(i) == <<"sub", i>>
Fwd(i) == <<"fwd", i>>
G(t) == goroutines[t]

\* one step of a goroutine: the new state of the API and of the goroutines
WsStep(f, mu, u, ev, g, pan, h) ==
    /\ panicked = <<>>
    /\ filters' = f
    /\ filtersMu' = mu
    /\ unsubscribed' = u
    /\ eventSubs' = ev
    /\ goroutines' = g
    /\ panicked' = pan
    /\ wsHistory' = h
    /\ UNCHANGED dbVars

\* a step that changes the goroutine only
Local(t, rec) ==
    WsStep(filters, filtersMu, unsubscribed, eventSubs,
           [goroutines EXCEPT ![t] = rec], panicked,
           [wsHistory EXCEPT !.last = [thread |-> t, op |-> rec.pc, id |-> rec.id,
                                       ret |-> rec.ret]])

\* api.subscribe up to the call of the event system: the parameters are
\* rejected or the event system fails (an error is returned, nothing is
\* registered), or the event system subscribes and the channel is made
subscribe ==
    \E i \in Ids, m \in Methods, ok \in BOOLEAN :
        /\ G(Sub(i)).pc = "idle"
        /\ IF ok
           THEN WsStep(filters, filtersMu, Put(unsubscribed, i, "open"),
                       eventSubs \cup {i},
                       [goroutines EXCEPT ![Sub(i)].pc = "register",
                                          ![Sub(i)].method = m],
                       panicked,
                       [wsHistory EXCEPT !.last = [thread |-> Sub(i), op |-> "subscribe",
                                                   id |-> i, ret |-> "none"]])
           ELSE Local(Sub(i), [G(Sub(i)) EXCEPT !.pc = "returned", !.method = m,
                                                !.ret = "error"])

\* the critical section of subscribe*: api.filters[sub.ID()] = &wsSubscription{...}
register ==
    \E i \in Ids :
        /\ G(Sub(i)).pc = "register"
        /\ Lock
        /\ WsStep(Put(filters, i, [sub |-> i, conn |-> "conn", unsubscribed |-> i]),
                  filtersMu, unsubscribed, eventSubs,
                  [goroutines EXCEPT ![Sub(i)].pc =
                       IF G(Sub(i)).method = "syncing" THEN "status" ELSE "go"],
                  panicked,
                  [wsHistory EXCEPT !.last = [thread |-> Sub(i), op |-> "register",
                                              id |-> i, ret |-> "none"],
                                    !.registered = @ \cup {i}])

\* subscribeSyncing: api.clientCtx.Client.Status() before the goroutine is started
status ==
    \E i \in Ids, ok \in BOOLEAN :
        /\ G(Sub(i)).pc = "status"
        /\ Local(Sub(i), IF ok THEN [G(Sub(i)) EXCEPT !.pc = "go"]
                         ELSE [G(Sub(i)) EXCEPT !.pc = "returned", !.ret = "error"])

\* the go statement of subscribe*, and the return of the id
spawn ==
    \E i \in Ids :
        /\ G(Sub(i)).pc = "go"
        /\ WsStep(filters, filtersMu, unsubscribed, eventSubs,
                  [goroutines EXCEPT ![Sub(i)].pc = "returned",
                                     ![Sub(i)].ret = "id",
                                     ![Fwd(i)].pc = "select",
                                     ![Fwd(i)].method = G(Sub(i)).method,
                                     ![Fwd(i)].err = "nil"],
                  panicked,
                  [wsHistory EXCEPT !.last = [thread |-> Sub(i), op |-> "spawn",
                                              id |-> i, ret |-> "id"]])

\* select: an event is received
selectEvent ==
    \E i \in Ids :
        /\ G(Fwd(i)).pc = "select"
        /\ wsHistory.events > 0
        /\ WsStep(filters, filtersMu, unsubscribed, eventSubs,
                  [goroutines EXCEPT ![Fwd(i)].pc = "event"], panicked,
                  [wsHistory EXCEPT !.last = [thread |-> Fwd(i), op |-> "event",
                                              id |-> i, ret |-> "none"],
                                    !.events = @ - 1])

\* select: the error channel of the subscription delivers
selectErr ==
    \E i \in Ids :
        /\ G(Fwd(i)).pc = "select"
        /\ wsHistory.events > 0
        /\ WsStep(filters, filtersMu, unsubscribed, eventSubs,
                  [goroutines EXCEPT ![Fwd(i)].pc = "errLock"], panicked,
                  [wsHistory EXCEPT !.last = [thread |-> Fwd(i), op |-> "errCh",
                                              id |-> i, ret |-> "none"],
                                    !.events = @ - 1])

\* select: the unsubscribed channel is closed; the goroutine returns
selectUnsubscribed ==
    \E i \in Ids :
        /\ G(Fwd(i)).pc = "select"
        /\ unsubscribed[i] = "closed"
        /\ Local(Fwd(i), [G(Fwd(i)) EXCEPT !.pc = "done"])

\* what a forwarding goroutine does with an event before it takes the lock.
\* newHeads: a header that cannot be converted is skipped (continue).
\* logs: an event that cannot be decoded ends the goroutine (return); err is
\* the variable of subscribeLogs and is assigned by the decoding.
\* newPendingTransactions: nothing can fail; err is the variable of
\* subscribePendingTransactions and keeps its value.
\* syncing: Status() is called; after an error the status is dereferenced,
\* which panics when the client returned a nil status.
decode ==
    \E i \in Ids, ok \in BOOLEAN, nilStatus \in BOOLEAN, n \in 0 .. MaxLogs :
        LET g == G(Fwd(i))
        IN  /\ g.pc = "event"
            /\ CASE g.method = "newHeads" ->
                      /\ n = 1 /\ ~nilStatus
                      /\ Local(Fwd(i), IF ok THEN [g EXCEPT !.pc = "lock", !.err = "nil",
                                                            !.n = 1]
                                       ELSE [g EXCEPT !.pc = "select"])
                 [] g.method = "logs" ->
                      /\ ~nilStatus
                      /\ ok \/ n = 0
                      /\ Local(Fwd(i), IF ok THEN [g EXCEPT !.pc = "lock", !.err = "nil",
                                                            !.n = n]
                                       ELSE [g EXCEPT !.pc = "done", !.err = "other"])
                 [] g.method = "newPendingTransactions" ->
                      /\ ok /\ n = 1 /\ ~nilStatus
                      /\ Local(Fwd(i), [g EXCEPT !.pc = "lock", !.n = 1])
                 [] g.method = "syncing" ->
                      /\ n = 1
                      /\ ok => ~nilStatus
                      /\ IF nilStatus
                         THEN WsStep(filters, filtersMu, unsubscribed, eventSubs,
                                     [goroutines EXCEPT ![Fwd(i)].pc = "panic"],
                                     Some("nil pointer dereference"),
                                     [wsHistory EXCEPT !.last =
                                         [thread |-> Fwd(i), op |-> "panic", id |-> i,
                                          ret |-> "none"]])
                         ELSE Local(Fwd(i), [g EXCEPT !.pc = "lock", !.n = 1,
                                                      !.err = IF ok THEN "nil"
                                                              ELSE "other"])

\* api.filtersMu.Lock() of the forwarding goroutine
forwardLock ==
    \E i \in Ids :
        /\ G(Fwd(i)).pc = "lock"
        /\ Lock
        /\ WsStep(filters, Some(Fwd(i)), unsubscribed, eventSubs,
                  [goroutines EXCEPT ![Fwd(i)].pc = "found"], panicked,
                  [wsHistory EXCEPT !.last = [thread |-> Fwd(i), op |-> "Lock",
                                              id |-> i, ret |-> "none"]])

\* fault injection: a forwarding goroutine that does not look its id up
forwardFoundAlways(i) == TRUE

\* f, found := api.filters[sub.ID()]
forwardFound(i) == i \in DOMAIN filters

\* if f, found := api.filters[sub.ID()]; found { ... }
forwardIfFound ==
    \E i \in Ids :
        /\ G(Fwd(i)).pc = "found"
        /\ Local(Fwd(i), [G(Fwd(i)) EXCEPT !.pc =
               IF forwardFound(i) /\ G(Fwd(i)).n > 0 THEN "write" ELSE "unlock"])

\* err = f.conn.WriteJSON(res): one notification; a logs subscription writes
\* one per log and stops at the first error
WriteJSON ==
    \E i \in Ids, r \in WriteErrors :
        LET g == G(Fwd(i))
        IN  /\ g.pc = "write"
            /\ WsStep(filters, filtersMu, unsubscribed, eventSubs,
                      [goroutines EXCEPT ![Fwd(i)] =
                          [g EXCEPT !.err = r,
                                    !.n = IF r = "nil" THEN g.n - 1 ELSE g.n,
                                    !.pc = IF r = "nil" /\ g.n - 1 > 0 THEN "write"
                                           ELSE "unlock"]],
                      panicked,
                      [wsHistory EXCEPT !.last = [thread |-> Fwd(i), op |-> "WriteJSON",
                                                  id |-> i, ret |-> r]])

\* api.filtersMu.Unlock() of the forwarding goroutine
forwardUnlock ==
    \E i \in Ids :
        /\ G(Fwd(i)).pc = "unlock"
        /\ WsStep(filters, <<>>, unsubscribed, eventSubs,
                  [goroutines EXCEPT ![Fwd(i)].pc = "closeSent"], panicked,
                  [wsHistory EXCEPT !.last = [thread |-> Fwd(i), op |-> "Unlock",
                                              id |-> i, ret |-> "none"]])

\* if err == websocket.ErrCloseSent { api.unsubscribe(sub.ID()) }
forwardCloseSent ==
    \E i \in Ids :
        /\ G(Fwd(i)).pc = "closeSent"
        /\ Local(Fwd(i), [G(Fwd(i)) EXCEPT !.pc =
               IF G(Fwd(i)).err = "ErrCloseSent" THEN "u_lock" ELSE "select"])

\* case <-errCh: api.filtersMu.Lock()
errLock ==
    \E i \in Ids :
        /\ G(Fwd(i)).pc = "errLock"
        /\ Lock
        /\ WsStep(filters, Some(Fwd(i)), unsubscribed, eventSubs,
                  [goroutines EXCEPT ![Fwd(i)].pc = "errRemove"], panicked,
                  [wsHistory EXCEPT !.last = [thread |-> Fwd(i), op |-> "Lock",
                                              id |-> i, ret |-> "none"]])

\* case <-errCh: sub.Unsubscribe(api.events); delete(api.filters, sub.ID());
\* api.filtersMu.Unlock(); return
errRemove ==
    \E i \in Ids :
        /\ G(Fwd(i)).pc = "errRemove"
        /\ WsStep(Remove(filters, i), <<>>, unsubscribed, eventSubs \ {i},
                  [goroutines EXCEPT ![Fwd(i)].pc = "done"], panicked,
                  [wsHistory EXCEPT !.last = [thread |-> Fwd(i), op |-> "errRemove",
                                              id |-> i, ret |-> "none"],
                                    !.errRemoved = @ \cup {i}])

\* a client calls api.unsubscribe(id)
unsubscribeCall ==
    \E c \in Clients, i \in Ids :
        /\ G(<<"cli", c>>).pc = "idle"
        /\ wsHistory.calls > 0
        /\ WsStep(filters, filtersMu, unsubscribed, eventSubs,
                  [goroutines EXCEPT ![<<"cli", c>>].pc = "u_lock",
                                     ![<<"cli", c>>].id = i,
                                     ![<<"cli", c>>].ret = "none"],
                  panicked,
                  [wsHistory EXCEPT !.last = [thread |-> <<"cli", c>>, op |-> "call",
                                              id |-> i, ret |-> "none"],
                                    !.calls = @ - 1])

\* the goroutines that can be inside api.unsubscribe
Unsubscribers == {t \in Threads : t[1] \in {"cli", "fwd"}}

\* unsubscribe: api.filtersMu.Lock()
unsubscribeLock ==
    \E t \in Unsubscribers :
        /\ G(t).pc = "u_lock"
        /\ Lock
        /\ WsStep(filters, Some(t), unsubscribed, eventSubs,
                  [goroutines EXCEPT ![t].pc = "u_check"], panicked,
                  [wsHistory EXCEPT !.last = [thread |-> t, op |-> "Lock",
                                              id |-> G(t).id, ret |-> "none"]])

\* api.filters[id] != nil
unsubscribeFound(id) == id \in DOMAIN filters

\* unsubscribe: if api.filters[id] == nil { return false }, and
\* api.filters[id].sub.Unsubscribe(api.events)
unsubscribeCheck ==
    \E t \in Unsubscribers :
        /\ G(t).pc = "u_check"
        /\ IF unsubscribeFound(G(t).id)
           THEN WsStep(filters, filtersMu, unsubscribed, eventSubs \ {G(t).id},
                       [goroutines EXCEPT ![t].pc = "u_close"], panicked,
                       [wsHistory EXCEPT !.last = [thread |-> t, op |-> "Unsubscribe",
                                                   id |-> G(t).id, ret |-> "none"]])
           ELSE Local(t, [G(t) EXCEPT !.pc = "u_return", !.ret = "false"])

\* unsubscribe: close(api.filters[id].unsubscribed); closing a closed channel
\* panics, and so does the field of an entry that is not there
closeUnsubscribed ==
    \E t \in Unsubscribers :
        /\ G(t).pc = "u_close"
        /\ IF G(t).id \notin DOMAIN filters
           THEN WsStep(filters, filtersMu, unsubscribed, eventSubs,
                       [goroutines EXCEPT ![t].pc = "panic"],
                       Some("nil pointer dereference"),
                       [wsHistory EXCEPT !.last = [thread |-> t, op |-> "panic",
                                                   id |-> G(t).id, ret |-> "none"]])
           ELSE IF unsubscribed[G(t).id] = "closed"
           THEN WsStep(filters, filtersMu, unsubscribed, eventSubs,
                       [goroutines EXCEPT ![t].pc = "panic"],
                       Some("close of closed channel"),
                       [wsHistory EXCEPT !.last = [thread |-> t, op |-> "panic",
                                                   id |-> G(t).id, ret |-> "none"]])
           ELSE WsStep(filters, filtersMu, [unsubscribed EXCEPT ![G(t).id] = "closed"],
                       eventSubs,
                       [goroutines EXCEPT ![t].pc = "u_delete"], panicked,
                       [wsHistory EXCEPT !.last = [thread |-> t, op |-> "close",
                                                   id |-> G(t).id, ret |-> "none"]])

\* unsubscribe: delete(api.filters, id); return true
deleteFilter ==
    \E t \in Unsubscribers :
        /\ G(t).pc = "u_delete"
        /\ WsStep(Remove(filters, G(t).id), filtersMu, unsubscribed, eventSubs,
                  [goroutines EXCEPT ![t].pc = "u_return", ![t].ret = "true"],
                  panicked,
                  [wsHistory EXCEPT !.last = [thread |-> t, op |-> "delete",
                                              id |-> G(t).id, ret |-> "none"]])

\* unsubscribe returns: the deferred api.filtersMu.Unlock(); a client is idle
\* again, a forwarding goroutine is back at its select
unsubscribeReturn ==
    \E t \in Unsubscribers :
        /\ G(t).pc = "u_return"
        /\ WsStep(filters, <<>>, unsubscribed, eventSubs,
                  [goroutines EXCEPT ![t].pc = IF t[1] = "cli" THEN "idle" ELSE "select"],
                  panicked,
                  [wsHistory EXCEPT
                      !.last = [thread |-> t, op |-> "unsubscribe", id |-> G(t).id,
                                ret |-> G(t).ret],
                      !.returnedTrue[G(t).id] =
                          IF G(t).ret = "true" THEN Append(@, t) ELSE @])

\* the goroutines of the PubSubAPI, interleaved
NextWs ==
    \/ subscribe
    \/ register
    \/ status
    \/ spawn
    \/ selectEvent
    \/ selectErr
    \/ selectUnsubscribed
    \/ decode
    \/ forwardLock
    \/ forwardIfFound
    \/ WriteJSON
    \/ forwardUnlock
    \/ forwardCloseSent
    \/ errLock
    \/ errRemove
    \/ unsubscribeCall
    \/ unsubscribeLock
    \/ unsubscribeCheck
    \/ closeUnsubscribed
    \/ deleteFilter
    \/ unsubscribeReturn

SpecWs == Init /\ [][NextWs]_vars



\* the unsubscribe calls for the id that have returned true
ReturnedTrue(i) == wsHistory.returnedTrue[i]

\* C38: of the unsubscribe calls for an id, from the clients and from the
\* forwarding goroutine after ErrCloseSent, at most one returns true; a call
\* that returns false for an id that was registered and that the error branch
\* did not remove comes after the one that returned true; and no call panics
\* on closing the closed channel
C38_OneUnsubscribeWins ==
    /\ panicked # Some("close of closed channel")
    /\ \A i \in Ids :
          /\ Len(ReturnedTrue(i)) <= 1
          /\ (/\ wsHistory.last.op = "unsubscribe"
              /\ wsHistory.last.id = i
              /\ i \in wsHistory.registered
              /\ i \notin wsHistory.errRemoved)
             => Len(ReturnedTrue(i)) = 1

\* the forwarding goroutine's own unsubscribe has returned true, a client's
\* call has just returned false, and the other client is waiting for the lock
C38_Witness ==
    /\ ReturnedTrue("s1") = <<Fwd("s1")>>
    /\ wsHistory.last.op = "unsubscribe"
    /\ wsHistory.last.thread = <<"cli", "c1">>
    /\ wsHistory.last.ret = "false"
    /\ G(<<"cli", "c2">>).pc = "u_lock"
    /\ G(<<"cli", "c2">>).id = "s1"



\* the id has been taken out of the filters: an unsubscribe call for it has
\* returned true, or the error branch of its goroutine has removed it
Unregistered(i) == ReturnedTrue(i) # <<>> \/ i \in wsHistory.errRemoved

\* C39: every write of a notification to the connection is made by the
\* forwarding goroutine while it holds filtersMu and while its id is
\* registered; none is made once the id has been taken out of the filters
C39_NoWriteAfterUnsubscribe ==
    [][\A i \in Ids :
          (G(Fwd(i)).pc = "write" /\ goroutines'[Fwd(i)] # goroutines[Fwd(i)])
          => /\ filtersMu = Some(Fwd(i))
             /\ i \in DOMAIN filters
             /\ ~Unregistered(i)]_vars

\* a notification has been written while both clients wait for the lock in
\* unsubscribe
C39_Witness ==
    /\ wsHistory.last.op = "WriteJSON"
    /\ wsHistory.last.ret = "nil"
    /\ \A c \in Clients : G(<<"cli", c>>).pc = "u_lock" /\ G(<<"cli", c>>).id = "s1"

\* C40: an id is in the filters only while its forwarding goroutine runs: a
\* subscribe call that has returned an error has left no entry, and a
\* goroutine that has returned has left none once the lock is free
C40_RegisteredWhileForwarding ==
    \A i \in Ids :
        (\/ G(Sub(i)).pc = "returned" /\ G(Sub(i)).ret = "error"
         \/ G(Fwd(i)).pc = "done" /\ filtersMu = <<>>)
        => i \notin DOMAIN filters

=============================================================================
